---------------------------- MODULE Spec2Model ----------------------------
(***************************************************************************)
(* A model of the signal engine of mexc_scalping_bot: the entry scorer     *)
(* (src/strategies/signal_generator.py), the exit evaluator                *)
(* (src/strategies/exit_manager.py), the helpers they call                 *)
(* (src/utils/helpers.py, src/indicators/technical_analysis.py) and the    *)
(* analysis cycle of main.py.                                              *)
(*                                                                         *)
(* Numbers.  Prices are integers counted in ticks; one price unit of the   *)
(* inputs is Tick = 7000 ticks, so that every product and quotient the     *)
(* code takes on them (x 0.382, x 0.618, x 1.618, x 0.995, x 1.005,        *)
(* x 1.02, x 0.98, the mean of 14 true ranges, x 2.0) is an integer and    *)
(* the integer arithmetic below is exact.  Percentages are compared by     *)
(* cross-multiplication.  Floating-point rounding is not modelled.         *)
(*                                                                         *)
(* Python values.  An optional float is a tagged record: None, NaN or      *)
(* Num(v).  An optional string is the string itself or "None".  A dict is  *)
(* a function whose domain is the set of its keys.                         *)
(*                                                                         *)
(* The ta library (RSI, EMA, OBV) is not code of this repository: what it  *)
(* returns for a window travels with the window (the fields rsi7, rsi14,   *)
(* ema, obv of a data frame) and the wrappers of TechnicalAnalysis read    *)
(* it, with NaN where the library has too little history.                  *)
(***************************************************************************)
EXTENDS Integers, Sequences, FiniteSets, TLC

----------------------------------------------------------------------------
(* Python values *)

None == [t |-> "none"]
NaN == [t |-> "nan"]
Num(v) == [t |-> "num", v |-> v]

IsNum(x) == x.t = "num"

\* bool(x) of an optional float: None and 0 are falsy, NaN is truthy
Truthy(x) == x.t = "nan" \/ (x.t = "num" /\ x.v # 0)

\* float comparisons: any comparison with NaN is False
Lt(x, y) == IsNum(x) /\ IsNum(y) /\ x.v < y.v
Gt(x, y) == IsNum(x) /\ IsNum(y) /\ x.v > y.v

\* a float that no rule of the engine reads: only its presence is kept
Some == [t |-> "some"]

NoneStr == "None"

Max2(a, b) == IF a >= b THEN a ELSE b
Abs(a) == IF a >= 0 THEN a ELSE -a
SetMax(S) == CHOOSE x \in S : \A y \in S : y <= x
SetMin(S) == CHOOSE x \in S : \A y \in S : x <= y

\* str.upper() and str.lower() on the direction strings
Upper(s) == CASE s = "long" -> "LONG" [] s = "short" -> "SHORT" [] OTHER -> s
Lower(s) == CASE s = "LONG" -> "long" [] s = "SHORT" -> "short" [] OTHER -> s

----------------------------------------------------------------------------
(* Candle windows *)

Tick == 14 * 500

Candle(o, h, l, c, v) ==
    [open |-> o * Tick, high |-> h * Tick, low |-> l * Tick, close |-> c * Tick, volume |-> v]

\* n equal candles without range at price p
Flat(n, p, v) == [i \in 1..n |-> Candle(p, p, p, p, v)]

\* len(df), df.empty, df.iloc[-k], df.tail(k)
DfLen(df) == Len(df.candles)
DfEmpty(df) == Len(df.candles) = 0
ILoc(df, k) == df.candles[Len(df.candles) - k + 1]
TailIdx(df, k) == (Max2(Len(df.candles) - k, 0) + 1)..Len(df.candles)

\* the EMA pairs a window carries: <<previous, latest>> of EMA(20) and EMA(50)
EmaSteadyBull == [e20 |-> <<102 * Tick, 102 * Tick>>, e50 |-> <<100 * Tick, 100 * Tick>>]
EmaSteadyBear == [e20 |-> <<98 * Tick, 98 * Tick>>, e50 |-> <<100 * Tick, 100 * Tick>>]
EmaBearCross == [e20 |-> <<101 * Tick, 99 * Tick>>, e50 |-> <<100 * Tick, 100 * Tick>>]
EmaBullCross == [e20 |-> <<99 * Tick, 101 * Tick>>, e50 |-> <<100 * Tick, 100 * Tick>>]
EmaEqual == [e20 |-> <<100 * Tick, 100 * Tick>>, e50 |-> <<100 * Tick, 100 * Tick>>]

\* the columns of a window as klines_to_dataframe builds it (the timestamp
\* is the index)
OhlcvColumns == {"open", "high", "low", "close", "volume"}

\* fails names the library calls that raise on this window; obv holds the
\* last two values of the OBV series, the previous one first
MkDf(cs, r7, r14, e, up) ==
    [candles |-> cs, rsi7 |-> r7, rsi14 |-> r14, ema |-> e,
     obv |-> IF up THEN <<0, 10>> ELSE <<10, 0>>,
     fails |-> {}, columns |-> OhlcvColumns]

WithObv(df, previous, latest) == [df EXCEPT !.obv = <<previous, latest>>]

Failing(df, calls) == [df EXCEPT !.fails = calls]


----------------------------------------------------------------------------
(* TechnicalAnalysis: the wrappers of the ta library.  A Series is kept as  *)
(* its length and its last two values.                                      *)

EmptySeries == [len |-> 0, last |-> NaN, prev |-> NaN]

\* RSIIndicator(close, window).rsi(): NaN until window values exist
calculate_rsi(df, period) ==
    IF DfEmpty(df) \/ "rsi" \in df.fails THEN EmptySeries
    ELSE [len |-> DfLen(df),
          last |-> IF DfLen(df) < period THEN NaN
                   ELSE Num(IF period = 7 THEN df.rsi7 ELSE df.rsi14),
          prev |-> NaN]

\* EMAIndicator(close, window).ema_indicator(): NaN until window values exist
calculate_ema(df, period) ==
    IF DfEmpty(df) \/ "ema" \in df.fails THEN EmptySeries
    ELSE LET e == IF period = 20 THEN df.ema.e20 ELSE df.ema.e50
         IN [len |-> DfLen(df),
             last |-> IF DfLen(df) < period THEN NaN ELSE Num(e[2]),
             prev |-> IF DfLen(df) - 1 < period THEN NaN ELSE Num(e[1])]

\* a snapshot whose OBV trend is rising unless the latest value fell
obv_trend_tie_rising(obv) ==
    IF obv.len >= 2 /\ ~Lt(obv.last, obv.prev) THEN "rising" ELSE "falling"

\* analysis['obv_trend']
obv_trend(obv) ==
    IF obv.len >= 2 /\ Gt(obv.last, obv.prev) THEN "rising" ELSE "falling"

\* OnBalanceVolumeIndicator(close, volume).on_balance_volume(): one value
\* per bar
calculate_obv(df) ==
    IF "obv" \in df.fails THEN EmptySeries
    ELSE [len |-> DfLen(df),
          last |-> IF DfLen(df) >= 1 THEN Num(df.obv[2]) ELSE NaN,
          prev |-> IF DfLen(df) >= 2 THEN Num(df.obv[1]) ELSE NaN]

\* a spike test whose mean takes the last lookback bars, the latest among them
detect_volume_spike_inclusive(df, multiplier, lookback) ==
    IF DfLen(df) < lookback + 1 THEN FALSE
    ELSE LET n == DfLen(df)
             vol(i) == df.candles[i].volume
             sum[i \in (n - lookback)..n] ==
                 IF i = n - lookback THEN 0 ELSE sum[i - 1] + vol(i)
         IN vol(n) * lookback > sum[n] * multiplier

detect_volume_spike(df, multiplier, lookback) ==
    IF DfLen(df) < lookback + 1 THEN FALSE
    ELSE LET n == DfLen(df)
             vol(i) == df.candles[i].volume
             sum[i \in (n - lookback - 1)..(n - 1)] ==
                 IF i = n - lookback - 1 THEN 0 ELSE sum[i - 1] + vol(i)
         IN \* current_volume > mean(volume[-lookback-1:-1]) * multiplier
            vol(n) * lookback > sum[n - 1] * multiplier

\* helpers.detect_volume_spike, the module-level twin of the method
helpers_detect_volume_spike(df, spike_multiplier, lookback_period) ==
    IF DfLen(df) < lookback_period + 1 THEN FALSE
    ELSE LET n == DfLen(df)
             vol(i) == df.candles[i].volume
             sum[i \in (n - lookback_period - 1)..(n - 1)] ==
                 IF i = n - lookback_period - 1 THEN 0 ELSE sum[i - 1] + vol(i)
         IN vol(n) * lookback_period > sum[n - 1] * spike_multiplier

\* an ATR wrapper that fills the bars without enough history with zero
calculate_atr_zero_filled(df) ==
    IF "atr" \in df.fails THEN EmptySeries
    ELSE IF DfLen(df) < 14 THEN [len |-> DfLen(df), last |-> Num(0), prev |-> Num(0)]
    ELSE [len |-> DfLen(df), last |-> Some, prev |-> Some]

\* AverageTrueRange(...).average_true_range(): the library raises on fewer
\* than window bars and the wrapper then returns an empty Series
calculate_atr(df) ==
    IF DfLen(df) < 14 \/ "atr" \in df.fails THEN EmptySeries
    ELSE [len |-> DfLen(df), last |-> Some, prev |-> Some]

body_size(c) == Abs(c.close - c.open)
lower_shadow(c) == (IF c.open <= c.close THEN c.open ELSE c.close) - c.low
upper_shadow(c) == c.high - (IF c.open >= c.close THEN c.open ELSE c.close)
total_range(c) == c.high - c.low

_is_doji(c) == body_size(c) * 10 <= total_range(c)

_is_hammer(c) ==
    /\ lower_shadow(c) >= body_size(c) * 2
    /\ upper_shadow(c) * 2 <= body_size(c)
    /\ body_size(c) > 0

_is_inverted_hammer(c) ==
    /\ upper_shadow(c) >= body_size(c) * 2
    /\ lower_shadow(c) * 2 <= body_size(c)
    /\ body_size(c) > 0

_is_bullish_engulfing(p, c) ==
    /\ p.close < p.open
    /\ c.close > c.open
    /\ c.open < p.close /\ c.close > p.open

_is_bearish_engulfing(p, c) ==
    /\ p.close > p.open
    /\ c.close < c.open
    /\ c.open > p.close /\ c.close < p.open

_is_bullish_pinbar(c) ==
    /\ lower_shadow(c) * 10 >= total_range(c) * 6
    /\ body_size(c) * 10 <= total_range(c) * 3
    /\ upper_shadow(c) * 10 <= total_range(c) * 2

\* a pinbar test that takes the longer shadow, whichever side it is on
_is_pinbar_either_side(c) ==
    LET long_shadow == Max2(lower_shadow(c), upper_shadow(c))
        short_shadow == lower_shadow(c) + upper_shadow(c) - long_shadow
    IN /\ long_shadow * 10 >= total_range(c) * 6
       /\ body_size(c) * 10 <= total_range(c) * 3
       /\ short_shadow * 10 <= total_range(c) * 2

_is_bearish_pinbar(c) ==
    /\ upper_shadow(c) * 10 >= total_range(c) * 6
    /\ body_size(c) * 10 <= total_range(c) * 3
    /\ lower_shadow(c) * 10 <= total_range(c) * 2

NoPatterns == [k \in {} |-> FALSE]

identify_candlestick_patterns(df) ==
    IF DfLen(df) < 3 THEN NoPatterns
    ELSE [doji |-> _is_doji(ILoc(df, 1)),
          hammer |-> _is_hammer(ILoc(df, 1)),
          inverted_hammer |-> _is_inverted_hammer(ILoc(df, 1)),
          bullish_engulfing |-> _is_bullish_engulfing(ILoc(df, 2), ILoc(df, 1)),
          bearish_engulfing |-> _is_bearish_engulfing(ILoc(df, 2), ILoc(df, 1)),
          bullish_pinbar |-> _is_bullish_pinbar(ILoc(df, 1)),
          bearish_pinbar |-> _is_bearish_pinbar(ILoc(df, 1))]

\* patterns.get(name): a missing key is None, which is falsy
PatGet(patterns, name) == name \in DOMAIN patterns /\ patterns[name]

analyze_trend(df) ==
    IF DfLen(df) < 50 THEN "neutral"
    ELSE IF calculate_ema(df, 20).len = 0 THEN "neutral"   \* .iloc[-1] raises
    ELSE LET ema_fast == calculate_ema(df, 20)
             ema_slow == calculate_ema(df, 50)
         IN IF Gt(ema_fast.last, ema_slow.last) THEN "bullish"
            ELSE IF Lt(ema_fast.last, ema_slow.last) THEN "bearish"
            ELSE "neutral"

\* rolling(window=20, center=True) of an even window places the value of the
\* bars i-10..i+9 at i, so the latest defined value is that of the last 20 bars
calculate_support_resistance(df) ==
    IF DfLen(df) < 20 THEN [support |-> None, resistance |-> None]
    ELSE [resistance |-> Num(SetMax({df.candles[i].high : i \in TailIdx(df, 20)})),
          support |-> Num(SetMin({df.candles[i].low : i \in TailIdx(df, 20)}))]

\* the {} that the except branch returns; every .get() on it gives the default
EmptyAnalysis ==
    [empty |-> TRUE, rsi_7 |-> None, rsi_14 |-> None, ema_20 |-> None, ema_50 |-> None,
     obv |-> None, obv_trend |-> NoneStr, atr |-> None,
     trend |-> NoneStr, volume_spike |-> FALSE, candlestick_patterns |-> NoPatterns,
     support |-> None, resistance |-> None, current_price |-> None,
     current_volume |-> None]

\* .iloc[-1] of the empty Series that a failed wrapper returns raises
\* IndexError; only the length guards the four reads at lines 335-338
SnapshotReadRaises(df) ==
    \/ DfLen(df) >= 7 /\ calculate_rsi(df, 7).len = 0
    \/ DfLen(df) >= 14 /\ calculate_rsi(df, 14).len = 0
    \/ DfLen(df) >= 20 /\ calculate_ema(df, 20).len = 0
    \/ DfLen(df) >= 50 /\ calculate_ema(df, 50).len = 0

get_comprehensive_analysis(df) ==
    IF DfEmpty(df) THEN EmptyAnalysis   \* df['close'].iloc[-1] raises IndexError
    ELSE IF SnapshotReadRaises(df) THEN EmptyAnalysis
    ELSE [empty |-> FALSE,
          rsi_7 |-> IF DfLen(df) >= 7 THEN calculate_rsi(df, 7).last ELSE None,
          rsi_14 |-> IF DfLen(df) >= 14 THEN calculate_rsi(df, 14).last ELSE None,
          ema_20 |-> IF DfLen(df) >= 20 THEN calculate_ema(df, 20).last ELSE None,
          ema_50 |-> IF DfLen(df) >= 50 THEN calculate_ema(df, 50).last ELSE None,
          obv |-> IF calculate_obv(df).len > 0 THEN Some ELSE None,
          obv_trend |-> obv_trend(calculate_obv(df)),
          atr |-> IF calculate_atr(df).len > 0 THEN calculate_atr(df).last ELSE None,
          trend |-> analyze_trend(df),
          volume_spike |-> detect_volume_spike(df, 2, 20),
          candlestick_patterns |-> identify_candlestick_patterns(df),
          support |-> calculate_support_resistance(df).support,
          resistance |-> calculate_support_resistance(df).resistance,
          current_price |-> Num(ILoc(df, 1).close),
          current_volume |-> Num(ILoc(df, 1).volume)]

----------------------------------------------------------------------------
(* helpers.py *)

\* TPn = low + diff x ratio (long), high - diff x ratio (short)
\* levels that compare the direction without lower(): 'LONG' takes the short branch
calculate_fibonacci_levels_case_sensitive(high, low, direction) ==
    LET diff == high - low
    IN IF direction = "long"
       THEN [TP1 |-> low + (diff * 382) \div 1000, TP2 |-> low + (diff * 618) \div 1000,
             TP3 |-> low + diff, TP4 |-> low + (diff * 1618) \div 1000]
       ELSE [TP1 |-> high - (diff * 382) \div 1000, TP2 |-> high - (diff * 618) \div 1000,
             TP3 |-> high - diff, TP4 |-> high - (diff * 1618) \div 1000]

calculate_fibonacci_levels(high, low, direction) ==
    LET diff == high - low
    IN IF Lower(direction) = "long"
       THEN [TP1 |-> low + (diff * 382) \div 1000, TP2 |-> low + (diff * 618) \div 1000,
             TP3 |-> low + diff, TP4 |-> low + (diff * 1618) \div 1000]
       ELSE [TP1 |-> high - (diff * 382) \div 1000, TP2 |-> high - (diff * 618) \div 1000,
             TP3 |-> high - diff, TP4 |-> high - (diff * 1618) \div 1000]

\* max(high-low, |high-close.shift(1)|, |low-close.shift(1)|); the first row has
\* no previous close and max(axis=1) skips its NaN
true_range(df, i) ==
    LET c == df.candles[i]
    IN IF i = 1 THEN c.high - c.low
       ELSE LET pc == df.candles[i - 1].close
            IN Max2(c.high - c.low, Max2(Abs(c.high - pc), Abs(c.low - pc)))

atr_period == 14

\* the sum of the last atr_period true ranges: atr = TrSum / atr_period
TrSum(df) ==
    LET n == DfLen(df)
        sum[i \in (n - atr_period)..n] ==
            IF i = n - atr_period THEN 0 ELSE sum[i - 1] + true_range(df, i)
    IN sum[n]

\* a stop that is put below the price whatever the direction
calculate_atr_stop_loss_below(df, direction) ==
    IF DfLen(df) < atr_period THEN None
    ELSE Num(ILoc(df, 1).close - (TrSum(df) \div atr_period) * 2)

calculate_atr_stop_loss(df, direction) ==
    IF DfLen(df) < atr_period THEN None
    ELSE LET atr == TrSum(df) \div atr_period
             current_price == ILoc(df, 1).close
         IN IF Lower(direction) = "long"
            THEN Num(current_price - atr * 2)
            ELSE Num(current_price + atr * 2)

\* the DataFrame after calculate_atr_stop_loss(df, ...): the four assignments
\* df['high_low'] = ..., df['true_range'] = ... add columns to the argument
TrueRangeColumns == {"high_low", "high_close", "low_close", "true_range"}

calculate_atr_stop_loss_frame(df) ==
    IF DfLen(df) < atr_period THEN df
    ELSE [df EXCEPT !.columns = @ \cup TrueRangeColumns]

----------------------------------------------------------------------------
(* ExitManager.  A position is [direction, entry_price, fibonacci_levels];  *)
(* entry_price 0 stands for a missing or zero entry price, direction "" for *)
(* a missing one.  A reason is the sequence of its parts, <<>> for None.    *)

TPOrder == <<"TP1", "TP2", "TP3">>

NoHit == [should_stop |-> FALSE, reason |-> <<>>]

\* the first name of order whose level the price has reached; a level that is
\* missing (None) or 0 is falsy and skipped
FirstReached(levels, order, current_price, direction) ==
    LET hit(i) == /\ order[i] \in DOMAIN levels
                  /\ levels[order[i]] # 0
                  /\ IF direction = "LONG" THEN current_price >= levels[order[i]]
                                           ELSE current_price <= levels[order[i]]
        hits == {i \in 1..Len(order) : hit(i)}
    IN IF hits = {} THEN NoneStr ELSE order[SetMin(hits)]

\* _check_fibonacci_levels scanning TP3, TP2, TP1 and then TP4
_check_fibonacci_levels_reordered(position_data, current_price) ==
    LET fibonacci_levels == position_data.fibonacci_levels
        direction == Upper(position_data.direction)
        order == <<"TP3", "TP2", "TP1", "TP4">>
    IN IF DOMAIN fibonacci_levels = {} THEN NoneStr
       ELSE IF direction \in {"LONG", "SHORT"}
       THEN FirstReached(fibonacci_levels, order, current_price, direction)
       ELSE NoneStr

_check_fibonacci_levels(position_data, current_price) ==
    LET fibonacci_levels == position_data.fibonacci_levels
        direction == Upper(position_data.direction)
    IN IF DOMAIN fibonacci_levels = {} THEN NoneStr
       ELSE IF direction \in {"LONG", "SHORT"}
       THEN FirstReached(fibonacci_levels, TPOrder, current_price, direction)
       ELSE NoneStr

\* an ATR level that is laid from the close of the bar before the latest
StopAtrFromPreviousClose(direction, df_1m) ==
    LET current_price == ILoc(df_1m, 1).close
        atr_stop == calculate_atr_stop_loss(df_1m, Lower(direction))
        moved == current_price - ILoc(df_1m, 2).close
    IN /\ DfLen(df_1m) >= 2
       /\ Truthy(atr_stop)
       /\ \/ direction = "LONG" /\ current_price <= atr_stop.v - moved
          \/ direction = "SHORT" /\ current_price >= atr_stop.v - moved

\* stop-loss rule 1: the ATR level recomputed on the current window
StopAtr(direction, df_1m) ==
    LET current_price == ILoc(df_1m, 1).close
        atr_stop == calculate_atr_stop_loss(df_1m, Lower(direction))
    IN /\ Truthy(atr_stop)
       /\ \/ direction = "LONG" /\ current_price <= atr_stop.v
          \/ direction = "SHORT" /\ current_price >= atr_stop.v

\* stop-loss rule 2: the previous candle's low / high
StopPrevCandle(direction, df_1m) ==
    LET current_price == ILoc(df_1m, 1).close
        prev_candle == ILoc(df_1m, 2)
    IN \/ direction = "LONG" /\ current_price <= prev_candle.low
       \/ direction = "SHORT" /\ current_price >= prev_candle.high

\* stop-loss rule 3: EMA(20) crossing EMA(50) on the 5m window against the position
StopEmaCross(direction, df_5m) ==
    /\ DfLen(df_5m) >= 50
    /\ LET ema_20 == calculate_ema(df_5m, 20)
           ema_50 == calculate_ema(df_5m, 50)
           prev_ema_20 == IF ema_20.len >= 2 THEN ema_20.prev ELSE ema_20.last
           prev_ema_50 == IF ema_50.len >= 2 THEN ema_50.prev ELSE ema_50.last
       IN /\ ema_20.len # 0 /\ ema_50.len # 0
          /\ \/ /\ direction = "LONG"
                /\ Gt(prev_ema_20, prev_ema_50) /\ Lt(ema_20.last, ema_50.last)
             \/ /\ direction = "SHORT"
                /\ Lt(prev_ema_20, prev_ema_50) /\ Gt(ema_20.last, ema_50.last)

\* stop-loss rule 4: RSI(14) of the 1m window at the adverse extreme
StopRsi(direction, df_1m) ==
    LET rsi == calculate_rsi(df_1m, 14)
    IN /\ rsi.len # 0
       /\ \/ direction = "LONG" /\ Lt(rsi.last, Num(20))
          \/ direction = "SHORT" /\ Gt(rsi.last, Num(80))

\* the four sub-rules with the RSI extreme tested first
_check_dynamic_stop_loss_rsi_first(position_data, df_1m, df_5m) ==
    LET direction == Upper(position_data.direction)
    IN IF DfEmpty(df_1m) THEN NoHit
       ELSE IF StopRsi(direction, df_1m)
       THEN [should_stop |-> TRUE,
             reason |-> IF direction = "LONG"
                        THEN <<"RSI extremamente baixo">>
                        ELSE <<"RSI extremamente alto">>]
       ELSE IF StopAtr(direction, df_1m)
       THEN [should_stop |-> TRUE, reason |-> <<"Stop Loss ATR atingido">>]
       ELSE IF DfLen(df_1m) < 2 THEN NoHit
       ELSE IF StopPrevCandle(direction, df_1m)
       THEN [should_stop |-> TRUE,
             reason |-> IF direction = "LONG"
                        THEN <<"Preco rompeu minima do candle anterior">>
                        ELSE <<"Preco rompeu maxima do candle anterior">>]
       ELSE IF StopEmaCross(direction, df_5m)
       THEN [should_stop |-> TRUE,
             reason |-> IF direction = "LONG"
                        THEN <<"Cruzamento bearish das EMAs (20 < 50)">>
                        ELSE <<"Cruzamento bullish das EMAs (20 > 50)">>]
       ELSE NoHit

_check_dynamic_stop_loss(position_data, df_1m, df_5m) ==
    LET direction == Upper(position_data.direction)
    IN IF DfEmpty(df_1m) THEN NoHit            \* iloc[-1] raises, caught
       ELSE IF StopAtr(direction, df_1m)
       THEN [should_stop |-> TRUE, reason |-> <<"Stop Loss ATR atingido">>]
       ELSE IF DfLen(df_1m) < 2 THEN NoHit     \* iloc[-2] raises, caught
       ELSE IF StopPrevCandle(direction, df_1m)
       THEN [should_stop |-> TRUE,
             reason |-> IF direction = "LONG"
                        THEN <<"Preco rompeu minima do candle anterior">>
                        ELSE <<"Preco rompeu maxima do candle anterior">>]
       ELSE IF StopEmaCross(direction, df_5m)
       THEN [should_stop |-> TRUE,
             reason |-> IF direction = "LONG"
                        THEN <<"Cruzamento bearish das EMAs (20 < 50)">>
                        ELSE <<"Cruzamento bullish das EMAs (20 > 50)">>]
       ELSE IF StopRsi(direction, df_1m)
       THEN [should_stop |-> TRUE,
             reason |-> IF direction = "LONG"
                        THEN <<"RSI extremamente baixo">>
                        ELSE <<"RSI extremamente alto">>]
       ELSE NoHit

\* the first pattern of the ordered list that the dict holds as true, as a
\* one-element sequence; <<>> when there is none
\* a scan of the ordered list that does not stop at its first match
AllPatterns(patterns, order) ==
    LET RECURSIVE Scan(_)
        Scan(i) == IF i > Len(order) THEN <<>>
                   ELSE (IF PatGet(patterns, order[i]) THEN <<order[i]>> ELSE <<>>)
                        \o Scan(i + 1)
    IN Scan(1)

FirstPattern(patterns, order) ==
    LET hits == {i \in 1..Len(order) : PatGet(patterns, order[i])}
    IN IF hits = {} THEN <<>> ELSE <<order[SetMin(hits)]>>

BearishPatterns == <<"inverted_hammer", "bearish_engulfing", "bearish_pinbar">>
BullishPatterns == <<"hammer", "bullish_engulfing", "bullish_pinbar">>

NoReversal == [should_exit |-> FALSE, reason |-> <<>>, count |-> 0]

_check_trend_reversal(position_data, df_1m, df_5m) ==
    LET direction == Upper(position_data.direction)
        analysis_1m == get_comprehensive_analysis(df_1m)
        analysis_5m == get_comprehensive_analysis(df_5m)
        s_obv == IF direction = "LONG" /\ analysis_1m.obv_trend = "falling"
                 THEN <<"OBV divergente (falling)">>
                 ELSE IF direction = "SHORT" /\ analysis_1m.obv_trend = "rising"
                 THEN <<"OBV divergente (rising)">>
                 ELSE <<>>
        s_pat == IF direction = "LONG"
                 THEN FirstPattern(analysis_1m.candlestick_patterns, BearishPatterns)
                 ELSE IF direction = "SHORT"
                 THEN FirstPattern(analysis_1m.candlestick_patterns, BullishPatterns)
                 ELSE <<>>
        rsi_14 == analysis_1m.rsi_14
        s_rsi == IF Truthy(rsi_14) /\ direction = "LONG" /\ Gt(rsi_14, Num(75))
                 THEN <<"RSI sobrecomprado">>
                 ELSE IF Truthy(rsi_14) /\ direction = "SHORT" /\ Lt(rsi_14, Num(25))
                 THEN <<"RSI sobrevendido">>
                 ELSE <<>>
        trend_5m == analysis_5m.trend
        s_trend == IF direction = "LONG" /\ trend_5m = "bearish"
                   THEN <<"Tendencia 5m bearish">>
                   ELSE IF direction = "SHORT" /\ trend_5m = "bullish"
                   THEN <<"Tendencia 5m bullish">>
                   ELSE <<>>
        signals_detected == s_obv \o s_pat \o s_rsi \o s_trend
        reversal_signals == Len(s_obv) + Len(s_pat) + Len(s_rsi) + Len(s_trend)
    IN IF reversal_signals >= 2
       THEN [should_exit |-> TRUE,
             reason |-> <<"Sinais de reversao detectados">> \o signals_detected,
             count |-> reversal_signals]
       ELSE NoReversal

\* profit_pct <= 1 for profit_pct = num / entry_price * 100 as numpy computes it:
\* with entry_price 0 the quotient is +inf, -inf or NaN
ProfitAtMostOne(num, entry_price) ==
    IF entry_price = 0 THEN num < 0 ELSE num * 100 <= entry_price

ProfitNum(direction, entry_price, current_price) ==
    IF direction = "LONG" THEN current_price - entry_price
                          ELSE entry_price - current_price

\* trailing level reached (long: 0.995 x the highest low, short: 1.005 x the
\* lowest high, of the last 10 bars)
TrailingReached(direction, df_1m) ==
    LET current_price == ILoc(df_1m, 1).close
        recent == TailIdx(df_1m, 10)
    IN \/ /\ direction = "LONG"
          /\ current_price <=
                 (SetMax({df_1m.candles[i].low : i \in recent}) * 995) \div 1000
       \/ /\ direction = "SHORT"
          /\ current_price >=
                 (SetMin({df_1m.candles[i].high : i \in recent}) * 1005) \div 1000

_check_trailing_stop_always(position_data, df_1m) ==
    LET direction == Upper(position_data.direction)
    IN IF DfEmpty(df_1m) THEN NoHit
       ELSE IF TrailingReached(direction, df_1m)
       THEN [should_stop |-> TRUE, reason |-> <<"Trailing stop ativado">>]
       ELSE NoHit

_check_trailing_stop(position_data, df_1m) ==
    LET direction == Upper(position_data.direction)
        entry_price == position_data.entry_price
    IN IF DfEmpty(df_1m) THEN NoHit            \* iloc[-1] raises, caught
       ELSE IF ProfitAtMostOne(ProfitNum(direction, entry_price, ILoc(df_1m, 1).close),
                               entry_price)
       THEN NoHit
       ELSE IF TrailingReached(direction, df_1m)
       THEN [should_stop |-> TRUE, reason |-> <<"Trailing stop ativado">>]
       ELSE NoHit

DefaultExit ==
    [should_exit |-> FALSE, exit_reason |-> <<>>, exit_type |-> NoneStr,
     suggested_exit_price |-> None, profit_loss_pct |-> [num |-> 0, den |-> 1],
     fibonacci_hit |-> NoneStr, signal_count |-> 0]

\* ExitChain with the stop loss tested before the take profit
ExitChainStopFirst(base, fib_hit, stop_loss_hit, reversal_signal, trailing_stop) ==
    IF stop_loss_hit.should_stop
    THEN [base EXCEPT !.should_exit = TRUE, !.exit_type = "stop_loss",
                      !.exit_reason = stop_loss_hit.reason]
    ELSE IF fib_hit # NoneStr
    THEN [base EXCEPT !.should_exit = TRUE, !.exit_type = "take_profit",
                      !.exit_reason = <<"Fibonacci", fib_hit, "atingido">>,
                      !.fibonacci_hit = fib_hit]
    ELSE IF reversal_signal.should_exit
    THEN [base EXCEPT !.should_exit = TRUE, !.exit_type = "reversal",
                      !.exit_reason = reversal_signal.reason,
                      !.signal_count = reversal_signal.count]
    ELSE IF trailing_stop.should_stop
    THEN [base EXCEPT !.should_exit = TRUE, !.exit_type = "trailing_stop",
                      !.exit_reason = trailing_stop.reason]
    ELSE base

\* ExitChain with the reversal tested before the stop loss
ExitChainReversalFirst(base, fib_hit, stop_loss_hit, reversal_signal, trailing_stop) ==
    IF fib_hit # NoneStr
    THEN [base EXCEPT !.should_exit = TRUE, !.exit_type = "take_profit",
                      !.exit_reason = <<"Fibonacci", fib_hit, "atingido">>,
                      !.fibonacci_hit = fib_hit]
    ELSE IF reversal_signal.should_exit
    THEN [base EXCEPT !.should_exit = TRUE, !.exit_type = "reversal",
                      !.exit_reason = reversal_signal.reason,
                      !.signal_count = reversal_signal.count]
    ELSE IF stop_loss_hit.should_stop
    THEN [base EXCEPT !.should_exit = TRUE, !.exit_type = "stop_loss",
                      !.exit_reason = stop_loss_hit.reason]
    ELSE IF trailing_stop.should_stop
    THEN [base EXCEPT !.should_exit = TRUE, !.exit_type = "trailing_stop",
                      !.exit_reason = trailing_stop.reason]
    ELSE base

\* ExitChain whose trailing-stop branch forgets to set should_exit
ExitChainTrailingSilent(base, fib_hit, stop_loss_hit, reversal_signal, trailing_stop) ==
    IF fib_hit # NoneStr
    THEN [base EXCEPT !.should_exit = TRUE, !.exit_type = "take_profit",
                      !.exit_reason = <<"Fibonacci", fib_hit, "atingido">>,
                      !.fibonacci_hit = fib_hit]
    ELSE IF stop_loss_hit.should_stop
    THEN [base EXCEPT !.should_exit = TRUE, !.exit_type = "stop_loss",
                      !.exit_reason = stop_loss_hit.reason]
    ELSE IF reversal_signal.should_exit
    THEN [base EXCEPT !.should_exit = TRUE, !.exit_type = "reversal",
                      !.exit_reason = reversal_signal.reason,
                      !.signal_count = reversal_signal.count]
    ELSE IF trailing_stop.should_stop
    THEN [base EXCEPT !.exit_type = "trailing_stop",
                      !.exit_reason = trailing_stop.reason]
    ELSE base

\* lines 68-102: the four checks in priority order, the first match returns
ExitChain(base, fib_hit, stop_loss_hit, reversal_signal, trailing_stop) ==
    IF fib_hit # NoneStr
    THEN [base EXCEPT !.should_exit = TRUE, !.exit_type = "take_profit",
                      !.exit_reason = <<"Fibonacci", fib_hit, "atingido">>,
                      !.fibonacci_hit = fib_hit]
    ELSE IF stop_loss_hit.should_stop
    THEN [base EXCEPT !.should_exit = TRUE, !.exit_type = "stop_loss",
                      !.exit_reason = stop_loss_hit.reason]
    ELSE IF reversal_signal.should_exit
    THEN [base EXCEPT !.should_exit = TRUE, !.exit_type = "reversal",
                      !.exit_reason = reversal_signal.reason,
                      !.signal_count = reversal_signal.count]
    ELSE IF trailing_stop.should_stop
    THEN [base EXCEPT !.should_exit = TRUE, !.exit_type = "trailing_stop",
                      !.exit_reason = trailing_stop.reason]
    ELSE base

\* an evaluator that goes on with a missing or zero entry price
analyze_exit_conditions_any_entry_price(position_data, market_data_1m, market_data_5m) ==
    IF DfEmpty(market_data_1m) \/ DfEmpty(market_data_5m) THEN DefaultExit
    ELSE LET current_price == ILoc(market_data_1m, 1).close
             entry_price == position_data.entry_price
             direction == Upper(position_data.direction)
         IN IF direction = "" THEN DefaultExit
            ELSE ExitChain(
                   [DefaultExit EXCEPT
                      !.profit_loss_pct =
                          [num |-> ProfitNum(direction, entry_price, current_price) * 100,
                           den |-> entry_price],
                      !.suggested_exit_price = Num(current_price)],
                   _check_fibonacci_levels(position_data, current_price),
                   _check_dynamic_stop_loss(position_data, market_data_1m, market_data_5m),
                   _check_trend_reversal(position_data, market_data_1m, market_data_5m),
                   _check_trailing_stop(position_data, market_data_1m))

analyze_exit_conditions(position_data, market_data_1m, market_data_5m) ==
    IF DfEmpty(market_data_1m) \/ DfEmpty(market_data_5m) THEN DefaultExit
    ELSE LET current_price == ILoc(market_data_1m, 1).close
             entry_price == position_data.entry_price
             direction == Upper(position_data.direction)
         IN IF entry_price = 0 \/ direction = "" THEN DefaultExit
            ELSE ExitChain(
                   [DefaultExit EXCEPT
                      !.profit_loss_pct =
                          [num |-> ProfitNum(direction, entry_price, current_price) * 100,
                           den |-> entry_price],
                      !.suggested_exit_price = Num(current_price)],
                   _check_fibonacci_levels(position_data, current_price),
                   _check_dynamic_stop_loss(position_data, market_data_1m, market_data_5m),
                   _check_trend_reversal(position_data, market_data_1m, market_data_5m),
                   _check_trailing_stop(position_data, market_data_1m))

\* an evaluator that prefers the position cached for the symbol to the one
\* it is given
ExitManager_analyze_exit_conditions_cached(self_active_positions, symbol, position_data, market_data_1m, market_data_5m) ==
    LET cached == symbol \in DOMAIN self_active_positions
        used == IF cached
                THEN [direction |-> self_active_positions[symbol].direction,
                      entry_price |-> self_active_positions[symbol].entry_price,
                      fibonacci_levels |-> self_active_positions[symbol].fibonacci_levels]
                ELSE position_data
    IN [exit_analysis |-> analyze_exit_conditions(used, market_data_1m, market_data_5m),
        active_positions |-> self_active_positions]

\* the method on its object: the result and self.active_positions after the
\* call; the body names self only for self.ta and the private checks, and the
\* symbol only in the log line
ExitManager_analyze_exit_conditions(self_active_positions, symbol, position_data, market_data_1m, market_data_5m) ==
    [exit_analysis |-> analyze_exit_conditions(position_data, market_data_1m, market_data_5m),
     active_positions |-> self_active_positions]

\* market_data_1m after analyze_exit_conditions: _check_dynamic_stop_loss
\* hands it to calculate_atr_stop_loss once no take profit was hit
analyze_exit_conditions_frame(position_data, market_data_1m, market_data_5m) ==
    IF DfEmpty(market_data_1m) \/ DfEmpty(market_data_5m) THEN market_data_1m
    ELSE IF position_data.entry_price = 0 \/ Upper(position_data.direction) = ""
    THEN market_data_1m
    ELSE IF _check_fibonacci_levels(position_data, ILoc(market_data_1m, 1).close) # NoneStr
    THEN market_data_1m
    ELSE calculate_atr_stop_loss_frame(market_data_1m)

----------------------------------------------------------------------------
(* SignalGenerator *)

RSI_OVERSOLD == 30
RSI_OVERBOUGHT == 70

NoConditions == [score |-> 0, reasons |-> <<>>]

\* one scoring rule: a point and its reason when the rule holds
Rule(holds, reason) == IF holds THEN <<reason>> ELSE <<>>

\* rule 7 in the source: current_price <= support * 1.02
NearSupport(current_price, support) ==
    /\ Truthy(current_price) /\ Truthy(support)
    /\ IsNum(current_price) /\ IsNum(support)
    /\ current_price.v * 100 <= support.v * 102

\* rule 7 in the source: current_price >= resistance * 0.98
NearResistance(current_price, resistance) ==
    /\ Truthy(current_price) /\ Truthy(resistance)
    /\ IsNum(current_price) /\ IsNum(resistance)
    /\ current_price.v * 100 >= resistance.v * 98

_check_long_conditions(analysis_1m, analysis_5m, btc) ==
    LET rsi_7 == analysis_1m.rsi_7
        rsi_14 == analysis_1m.rsi_14
        pattern == FirstPattern(analysis_1m.candlestick_patterns, BullishPatterns)
        reasons ==
            Rule(btc = "bullish", "Tendencia do BTC bullish")
            \o Rule(Truthy(rsi_7) /\ Lt(rsi_7, Num(RSI_OVERSOLD)), "RSI 7 em sobrevenda")
            \o Rule(Truthy(rsi_14) /\ Lt(rsi_14, Num(RSI_OVERSOLD)), "RSI 14 em sobrevenda")
            \o Rule(analysis_5m.trend = "bullish", "Tendencia das EMAs bullish (5m)")
            \o Rule(analysis_1m.obv_trend = "rising", "OBV em alta")
            \o Rule(analysis_1m.volume_spike, "Spike de volume detectado")
            \o pattern
            \o Rule(NearSupport(analysis_1m.current_price, analysis_5m.support),
                    "Preco proximo ao suporte")
    IN [score |-> Len(reasons), reasons |-> reasons]

_check_short_conditions(analysis_1m, analysis_5m, btc) ==
    LET rsi_7 == analysis_1m.rsi_7
        rsi_14 == analysis_1m.rsi_14
        pattern == FirstPattern(analysis_1m.candlestick_patterns, BearishPatterns)
        reasons ==
            Rule(btc = "bearish", "Tendencia do BTC bearish")
            \o Rule(Truthy(rsi_7) /\ Gt(rsi_7, Num(RSI_OVERBOUGHT)), "RSI 7 em sobrecompra")
            \o Rule(Truthy(rsi_14) /\ Gt(rsi_14, Num(RSI_OVERBOUGHT)), "RSI 14 em sobrecompra")
            \o Rule(analysis_5m.trend = "bearish", "Tendencia das EMAs bearish (5m)")
            \o Rule(analysis_1m.obv_trend = "falling", "OBV em queda")
            \o Rule(analysis_1m.volume_spike, "Spike de volume detectado")
            \o pattern
            \o Rule(NearResistance(analysis_1m.current_price, analysis_5m.resistance),
                    "Preco proximo a resistencia")
    IN [score |-> Len(reasons), reasons |-> reasons]

NoLevels == [k \in {} |-> 0]

DefaultSignal ==
    [has_signal |-> FALSE, direction |-> NoneStr, strength |-> 0, reasons |-> <<>>,
     price |-> None, rsi_7 |-> None, rsi_14 |-> None, volume_spike |-> FALSE,
     candlestick_patterns |-> NoPatterns, fibonacci_levels |-> NoLevels,
     stop_loss |-> None]

\* df['high'].tail(20).max() and df['low'].tail(20).min()
TailHigh(df) == SetMax({df.candles[i].high : i \in TailIdx(df, 20)})
TailLow(df) == SetMin({df.candles[i].low : i \in TailIdx(df, 20)})

\* a decision that lets LONG win a tie: >= where the source compares with >
DecideSignalTieLong(base, long_conditions, short_conditions, df_1m, df_5m) ==
    IF long_conditions.score >= short_conditions.score /\ long_conditions.score >= 3
    THEN [base EXCEPT
            !.has_signal = TRUE, !.direction = "LONG",
            !.strength = long_conditions.score, !.reasons = long_conditions.reasons,
            !.fibonacci_levels =
                calculate_fibonacci_levels(TailHigh(df_5m), TailLow(df_5m), "long"),
            !.stop_loss = calculate_atr_stop_loss(df_1m, "long")]
    ELSE IF short_conditions.score > long_conditions.score /\ short_conditions.score >= 3
    THEN [base EXCEPT
            !.has_signal = TRUE, !.direction = "SHORT",
            !.strength = short_conditions.score, !.reasons = short_conditions.reasons,
            !.fibonacci_levels =
                calculate_fibonacci_levels(TailHigh(df_5m), TailLow(df_5m), "short"),
            !.stop_loss = calculate_atr_stop_loss(df_1m, "short")]
    ELSE base

\* lines 96-125: the direction with the larger score, if that score is >= 3
\* a decision that caps the strength at 7 and leaves the reasons as they are
DecideSignalCapped(base, long_conditions, short_conditions, df_1m, df_5m) ==
    IF long_conditions.score > short_conditions.score /\ long_conditions.score >= 3
    THEN [base EXCEPT
            !.has_signal = TRUE, !.direction = "LONG",
            !.strength = IF long_conditions.score > 7 THEN 7 ELSE long_conditions.score,
            !.reasons = long_conditions.reasons,
            !.fibonacci_levels =
                calculate_fibonacci_levels(TailHigh(df_5m), TailLow(df_5m), "long"),
            !.stop_loss = calculate_atr_stop_loss(df_1m, "long")]
    ELSE IF short_conditions.score > long_conditions.score /\ short_conditions.score >= 3
    THEN [base EXCEPT
            !.has_signal = TRUE, !.direction = "SHORT",
            !.strength = IF short_conditions.score > 7 THEN 7 ELSE short_conditions.score,
            !.reasons = short_conditions.reasons,
            !.fibonacci_levels =
                calculate_fibonacci_levels(TailHigh(df_5m), TailLow(df_5m), "short"),
            !.stop_loss = calculate_atr_stop_loss(df_1m, "short")]
    ELSE base

DecideSignal(base, long_conditions, short_conditions, df_1m, df_5m) ==
    IF long_conditions.score > short_conditions.score /\ long_conditions.score >= 3
    THEN [base EXCEPT
            !.has_signal = TRUE, !.direction = "LONG",
            !.strength = long_conditions.score, !.reasons = long_conditions.reasons,
            !.fibonacci_levels =
                calculate_fibonacci_levels(TailHigh(df_5m), TailLow(df_5m), "long"),
            !.stop_loss = calculate_atr_stop_loss(df_1m, "long")]
    ELSE IF short_conditions.score > long_conditions.score /\ short_conditions.score >= 3
    THEN [base EXCEPT
            !.has_signal = TRUE, !.direction = "SHORT",
            !.strength = short_conditions.score, !.reasons = short_conditions.reasons,
            !.fibonacci_levels =
                calculate_fibonacci_levels(TailHigh(df_5m), TailLow(df_5m), "short"),
            !.stop_loss = calculate_atr_stop_loss(df_1m, "short")]
    ELSE base

\* an entry check that asks 50 bars of the short window only
check_entry_conditions_short_window_only(df_1m, df_5m, btc) ==
    IF DfLen(df_1m) < 50 THEN DefaultSignal
    ELSE LET analysis_1m == get_comprehensive_analysis(df_1m)
             analysis_5m == get_comprehensive_analysis(df_5m)
         IN DecideSignal(
              [DefaultSignal EXCEPT
                 !.price = analysis_1m.current_price,
                 !.rsi_7 = analysis_1m.rsi_7,
                 !.rsi_14 = analysis_1m.rsi_14,
                 !.volume_spike = analysis_1m.volume_spike,
                 !.candlestick_patterns = analysis_1m.candlestick_patterns],
              _check_long_conditions(analysis_1m, analysis_5m, btc),
              _check_short_conditions(analysis_1m, analysis_5m, btc),
              df_1m, df_5m)

check_entry_conditions(df_1m, df_5m, btc) ==
    IF DfLen(df_1m) < 50 \/ DfLen(df_5m) < 50 THEN DefaultSignal
    ELSE LET analysis_1m == get_comprehensive_analysis(df_1m)
             analysis_5m == get_comprehensive_analysis(df_5m)
         IN DecideSignal(
              [DefaultSignal EXCEPT
                 !.price = analysis_1m.current_price,
                 !.rsi_7 = analysis_1m.rsi_7,
                 !.rsi_14 = analysis_1m.rsi_14,
                 !.volume_spike = analysis_1m.volume_spike,
                 !.candlestick_patterns = analysis_1m.candlestick_patterns],
              _check_long_conditions(analysis_1m, analysis_5m, btc),
              _check_short_conditions(analysis_1m, analysis_5m, btc),
              df_1m, df_5m)

\* df_1m after check_entry_conditions: an emitted signal had its stop loss
\* computed by calculate_atr_stop_loss(df_1m, ...)
check_entry_conditions_frame(df_1m, df_5m, btc) ==
    IF check_entry_conditions(df_1m, df_5m, btc).has_signal
    THEN calculate_atr_stop_loss_frame(df_1m)
    ELSE df_1m

\* a gate whose strength threshold is 2 where the source has 3
validate_signal_quality_weak(signal) ==
    /\ signal.has_signal
    /\ ~(signal.strength < 2)
    /\ Truthy(signal.price) /\ ~(IsNum(signal.price) /\ signal.price.v <= 0)
    /\ Truthy(signal.stop_loss) /\ ~(IsNum(signal.stop_loss) /\ signal.stop_loss.v <= 0)
    /\ DOMAIN signal.fibonacci_levels # {}
    /\ \A k \in DOMAIN signal.fibonacci_levels : signal.fibonacci_levels[k] > 0

validate_signal_quality(signal) ==
    /\ signal.has_signal
    /\ ~(signal.strength < 3)
    /\ Truthy(signal.price) /\ ~(IsNum(signal.price) /\ signal.price.v <= 0)
    /\ Truthy(signal.stop_loss) /\ ~(IsNum(signal.stop_loss) /\ signal.stop_loss.v <= 0)
    /\ DOMAIN signal.fibonacci_levels # {}
    /\ \A k \in DOMAIN signal.fibonacci_levels : signal.fibonacci_levels[k] > 0

analyze_btc_trend(btc_data) ==
    IF DfLen(btc_data) < 50 THEN "neutral"
    ELSE LET trend == analyze_trend(btc_data)
             rsi == calculate_rsi(btc_data, 14)
             current_rsi == IF rsi.len > 0 THEN rsi.last ELSE Num(50)
         IN IF trend = "bullish" /\ Gt(current_rsi, Num(40)) THEN "bullish"
            ELSE IF trend = "bearish" /\ Lt(current_rsi, Num(60)) THEN "bearish"
            ELSE "neutral"

----------------------------------------------------------------------------
(* TelegramBot *)

cache_duration == 300

\* the alert text, as far as two alerts can differ: it carries the time of
\* sending to the second
AlertText(symbol, signal_data, time) ==
    [symbol |-> symbol, direction |-> signal_data.direction,
     strength |-> signal_data.strength, time |-> time]

\* send_signal_alert up to the call of send_message: a signal without
\* has_signal is refused, and formatting a missing number raises
AlertFormats(signal_data) ==
    /\ signal_data.has_signal
    /\ signal_data.price # None /\ signal_data.rsi_7 # None
    /\ signal_data.rsi_14 # None /\ signal_data.stop_loss # None

\* send_message: the text was accepted within cache_duration
CacheHit(cache, text, time) ==
    text \in DOMAIN cache /\ time - cache[text] < cache_duration

CachePut(cache, text, time) ==
    [t \in DOMAIN cache \cup {text} |-> IF t = text THEN time ELSE cache[t]]

clear_message_cache(cache, time) ==
    [t \in {u \in DOMAIN cache : ~(time - cache[u] > cache_duration)} |-> cache[t]]

\* a send that stamps the text in the cache whatever the API answered
send_message_stamps_failures(self_token, self_message_cache, text, current_time, status) ==
    IF self_token = "" THEN [result |-> FALSE, posted |-> FALSE, message_cache |-> self_message_cache]
    ELSE IF CacheHit(self_message_cache, text, current_time)
    THEN [result |-> TRUE, posted |-> FALSE, message_cache |-> self_message_cache]
    ELSE [result |-> status = 200, posted |-> TRUE,
          message_cache |-> CachePut(self_message_cache, text, current_time)]

\* send_message(text) on its object at the clock reading current_time, the
\* API answering status (any other outcome of the post, an exception
\* included, is a status that is not 200): what it returns, whether it issued
\* the HTTP request, and self.message_cache after the call.  The hash of the
\* text stands for the text.
send_message(self_token, self_message_cache, text, current_time, status) ==
    IF self_token = "" THEN [result |-> FALSE, posted |-> FALSE, message_cache |-> self_message_cache]
    ELSE IF CacheHit(self_message_cache, text, current_time)
    THEN [result |-> TRUE, posted |-> FALSE, message_cache |-> self_message_cache]
    ELSE IF status = 200
    THEN [result |-> TRUE, posted |-> TRUE,
          message_cache |-> CachePut(self_message_cache, text, current_time)]
    ELSE [result |-> FALSE, posted |-> TRUE, message_cache |-> self_message_cache]

----------------------------------------------------------------------------
(* MEXCScalpingBot *)

max_pairs_per_cycle == 20

\* an analysis loop that keeps every signal of check_entry_conditions
KeepSignalUngated(signal) == signal.has_signal

\* main.py line 139: what analyze_market appends to signals_found
KeepSignal(signal) == signal.has_signal /\ validate_signal_quality(signal)

----------------------------------------------------------------------------
(* State *)

VARIABLES
    pc,                 \* which step of the run has been taken
    position,           \* position_data handed to the exit evaluator
    df_1m, df_5m,       \* the 1m and 5m windows
    exit_analysis,      \* what analyze_exit_conditions returned
    btc_trend,          \* the reference trend
    signal,             \* the signal dict under construction or validation
    long_conditions,    \* what _check_long_conditions returned
    short_conditions,   \* what _check_short_conditions returned
    valid,              \* what validate_signal_quality returned
    pair_idx,           \* analyze_market: index of the next monitored pair
    signals_found,      \* analyze_market: the signals kept so far
    send_idx,           \* send_signals: index of the next signal to send
    last_alert,         \* the latest signal handed to send_signal_alert
    signals_sent_today, \* alerts acknowledged by Telegram
    cycle_count,        \* finished analysis cycles
    cycle_start_time,   \* when the running cycle started, in seconds
    message_cache,      \* TelegramBot.message_cache: text -> time accepted
    now,                \* the clock, in seconds
    analysis,           \* what get_comprehensive_analysis returned
    spike,              \* what helpers.detect_volume_spike returned
    fib,                \* arguments and result of calculate_fibonacci_levels
    active_positions,   \* ExitManager.active_positions: symbol -> position
    reversal_signal,    \* what _check_trend_reversal returned
    is_running,         \* MEXCScalpingBot.is_running
    signals_received,   \* how often _signal_handler has run
    token,              \* TelegramBot.token, "" when it is not configured
    send_calls          \* the calls of send_message so far, with their outcome

auxVars == <<analysis, spike, fib, active_positions, reversal_signal>>

botVars == <<pair_idx, signals_found, send_idx, last_alert, signals_sent_today,
             cycle_count, cycle_start_time, message_cache, now>>

runVars == <<is_running, signals_received, token, send_calls>>

vars == <<pc, position, df_1m, df_5m, exit_analysis, btc_trend, signal,
          long_conditions, short_conditions, valid, botVars, auxVars, runVars>>

NoAlert == [symbol |-> NoneStr, signal |-> DefaultSignal]
NoMessages == [t \in {} |-> 0]

\* the bot after construction
BotIdle ==
    /\ pair_idx = 1
    /\ signals_found = <<>>
    /\ send_idx = 1
    /\ last_alert = NoAlert
    /\ signals_sent_today = 0
    /\ cycle_count = 0
    /\ cycle_start_time = 0
    /\ message_cache = NoMessages
    /\ now = 0
    /\ is_running = FALSE
    /\ signals_received = 0
    /\ token = "token"
    /\ send_calls = <<>>

NoPosition == [direction |-> "", entry_price |-> 0, fibonacci_levels |-> NoLevels]

NoFib == [high |-> 0, low |-> 0, direction |-> "", levels |-> NoLevels]
NoPositions == [s \in {} |-> NoPosition]

\* the variables of the single functions before anything ran
AuxIdle ==
    /\ analysis = EmptyAnalysis
    /\ spike = FALSE
    /\ fib = NoFib
    /\ active_positions = NoPositions
    /\ reversal_signal = NoReversal

\* the variables of the entry side before anything ran
EntryIdle ==
    /\ btc_trend = "neutral"
    /\ signal = DefaultSignal
    /\ long_conditions = NoConditions
    /\ short_conditions = NoConditions
    /\ valid = FALSE

\* the variables of the exit side before anything ran
ExitIdle ==
    /\ position = NoPosition
    /\ exit_analysis = DefaultExit

----------------------------------------------------------------------------
(* Inputs of the exit evaluator *)

MaxTail == 2

BarFlat == Candle(100, 100, 100, 100, 10)
BarDown == Candle(100, 100, 98, 98, 10)
BarUp == Candle(100, 102, 100, 102, 10)
BarInvHammer == Candle(100, 104, 100, 101, 10)

ExitBars == {BarFlat, BarDown, BarUp, BarInvHammer}

\* the bars appended to a flat window: the evaluators read the last two bars
\* one by one (iloc[-1], iloc[-2]) and the earlier ones only through rolling
\* aggregates, so the last two are free and the ones before them are flat
Tails(bars, n) ==
    {t \in UNION {[1..k -> bars] : k \in 0..n} : \A i \in 1..(Len(t) - 2) : t[i] = BarFlat}

EmptyDf == MkDf(<<>>, 50, 50, EmaEqual, FALSE)

ExitWindows1m ==
    {Flat(n, p, 10) \o t : n \in {0, 12, 14}, p \in {100, 104}, t \in Tails(ExitBars, MaxTail)}

ExitDf1m == {MkDf(cs, 50, r14, EmaEqual, up) :
                cs \in ExitWindows1m, r14 \in {10, 50, 90}, up \in BOOLEAN}

ExitDf5m == {EmptyDf}
            \cup {MkDf(Flat(51, 100, 10), 50, 50, e, FALSE) :
                     e \in {EmaSteadyBull, EmaSteadyBear, EmaBearCross, EmaBullCross}}

ExitLevels(direction) ==
    {[k \in {} |-> 0],
     calculate_fibonacci_levels(100 * Tick, 90 * Tick, direction),
     calculate_fibonacci_levels(110 * Tick, 100 * Tick, direction),
     [TP4 |-> 100 * Tick]}

ExitPositions ==
    {[direction |-> d, entry_price |-> e * Tick, fibonacci_levels |-> f] :
        d \in {"LONG", "SHORT"}, e \in {0, 90, 100}, f \in ExitLevels("long") \cup ExitLevels("short")}
    \cup {[direction |-> d, entry_price |-> 100 * Tick,
           fibonacci_levels |-> calculate_fibonacci_levels(100 * Tick, 90 * Tick, d)] :
            d \in {"", "long", "short"}}

InitExit ==
    /\ pc = "exit_input"
    /\ position \in ExitPositions
    /\ df_1m \in ExitDf1m
    /\ df_5m \in ExitDf5m
    /\ exit_analysis = DefaultExit
    /\ EntryIdle
    /\ BotIdle
    /\ AuxIdle

AnalyzeExit ==
    /\ pc = "exit_input"
    /\ exit_analysis' = analyze_exit_conditions(position, df_1m, df_5m)
    /\ df_1m' = analyze_exit_conditions_frame(position, df_1m, df_5m)
    /\ pc' = "exit_done"
    /\ UNCHANGED <<position, df_5m, btc_trend, signal, long_conditions,
                   short_conditions, valid, botVars, auxVars, runVars>>

NextExit == AnalyzeExit

SpecExit == InitExit /\ [][NextExit]_vars

----------------------------------------------------------------------------
(* Properties of the exit evaluator (SpecExit) *)

ExitDone == pc = "exit_done"

CurrentPrice == ILoc(df_1m, 1).close

PosDirection == Upper(position.direction)

\* the price has reached the stored level k of the position
LevelReached(k) ==
    /\ ~DfEmpty(df_1m)
    /\ k \in DOMAIN position.fibonacci_levels
    /\ position.fibonacci_levels[k] # 0
    /\ \/ PosDirection = "LONG" /\ CurrentPrice >= position.fibonacci_levels[k]
       \/ PosDirection = "SHORT" /\ CurrentPrice <= position.fibonacci_levels[k]

\* the evaluator got past its guards (lines 49-57)
ExitEvaluated ==
    /\ ~DfEmpty(df_1m) /\ ~DfEmpty(df_5m)
    /\ position.entry_price # 0 /\ PosDirection # ""

StopLossHolds == _check_dynamic_stop_loss(position, df_1m, df_5m).should_stop
ReversalHolds == _check_trend_reversal(position, df_1m, df_5m).should_exit
TrailingHolds == _check_trailing_stop(position, df_1m).should_stop
TakeProfitHolds == \E k \in {"TP1", "TP2", "TP3"} : LevelReached(k)

\* C1 as stated: whenever the price has reached a stored Fibonacci target and a
\* stop-loss condition holds too, the decision is take_profit.
C1_PriorityAsStated ==
    (/\ ExitDone
     /\ PosDirection \in {"LONG", "SHORT"}
     /\ ~DfEmpty(df_1m)
     /\ \E k \in {"TP1", "TP2", "TP3", "TP4"} : LevelReached(k)
     /\ StopLossHolds)
    => exit_analysis.exit_type = "take_profit"

\* C1 amended: when both windows are non-empty and the position has an entry
\* price, a reached TP1, TP2 or TP3 together with a stop-loss condition gives
\* take_profit, never stop_loss.
C1_TakeProfitBeforeStopLoss ==
    (/\ ExitDone
     /\ PosDirection \in {"LONG", "SHORT"}
     /\ ExitEvaluated
     /\ TakeProfitHolds
     /\ StopLossHolds)
    => exit_analysis.exit_type = "take_profit"

\* a long position on a window without range (ATR = 0) whose price has
\* reached TP1: the ATR stop and the target hold together
C1_Witness ==
    /\ ExitDone /\ ExitEvaluated
    /\ PosDirection = "LONG"
    /\ LevelReached("TP1")
    /\ StopAtr("LONG", df_1m)
    /\ exit_analysis.exit_type = "take_profit"

\* C6: with an unrealized profit of at most 1% the trailing-stop check returns
\* no stop and the decision is not trailing_stop, also when the price is
\* beyond the trailing level.
C6_TrailingNeedsProfit ==
    (/\ ExitDone
     /\ ~DfEmpty(df_1m)
     /\ position.entry_price > 0
     /\ ProfitNum(PosDirection, position.entry_price, CurrentPrice) * 100
            <= position.entry_price)
    => /\ ~_check_trailing_stop(position, df_1m).should_stop
       /\ exit_analysis.exit_type # "trailing_stop"

\* the evaluator reached the trailing check of a long position whose price is
\* under the trailing level, with no profit
C6_Witness ==
    /\ ExitDone /\ ExitEvaluated
    /\ PosDirection = "LONG"
    /\ CurrentPrice <= position.entry_price
    /\ TrailingReached("LONG", df_1m)
    /\ ~TakeProfitHolds /\ ~StopLossHolds /\ ~ReversalHolds
    /\ exit_analysis.exit_type = NoneStr

\* C7: the checks run in the order take profit, stop loss, reversal, trailing
\* stop: a decision of a later type means no earlier check matched.
C7_StrictOrder ==
    ExitDone =>
        /\ exit_analysis.exit_type = "stop_loss" => ~TakeProfitHolds
        /\ exit_analysis.exit_type = "reversal" => ~TakeProfitHolds /\ ~StopLossHolds
        /\ exit_analysis.exit_type = "trailing_stop" =>
               ~TakeProfitHolds /\ ~StopLossHolds /\ ~ReversalHolds
        /\ (ExitEvaluated /\ TakeProfitHolds) => exit_analysis.exit_type = "take_profit"
        /\ (ExitEvaluated /\ ~TakeProfitHolds /\ StopLossHolds) =>
               exit_analysis.exit_type = "stop_loss"
        /\ (ExitEvaluated /\ ~TakeProfitHolds /\ ~StopLossHolds /\ ReversalHolds) =>
               exit_analysis.exit_type = "reversal"

\* a stop loss decided while the reversal and the trailing stop match as well
C7_Witness ==
    /\ ExitDone
    /\ exit_analysis.exit_type = "stop_loss"
    /\ ReversalHolds /\ TrailingHolds

\* C8: when no check matches the decision is should_exit = false with no exit
\* type and no reason; should_exit = true comes with one of the four types.
C8_NoMatchNoExit ==
    ExitDone =>
        /\ (~TakeProfitHolds /\ ~StopLossHolds /\ ~ReversalHolds /\ ~TrailingHolds) =>
               /\ ~exit_analysis.should_exit
               /\ exit_analysis.exit_type = NoneStr
               /\ exit_analysis.exit_reason = <<>>
        /\ exit_analysis.should_exit <=>
               exit_analysis.exit_type \in
                   {"take_profit", "stop_loss", "reversal", "trailing_stop"}
        /\ exit_analysis.exit_type \in
               {NoneStr, "take_profit", "stop_loss", "reversal", "trailing_stop"}

\* an evaluated position on which none of the four checks matches
C8_Witness ==
    /\ ExitDone /\ ExitEvaluated
    /\ PosDirection \in {"LONG", "SHORT"}
    /\ DOMAIN position.fibonacci_levels # {}
    /\ ~TakeProfitHolds /\ ~StopLossHolds /\ ~ReversalHolds /\ ~TrailingHolds
    /\ ~exit_analysis.should_exit

\* the level C9 expects: the first of TP1, TP2, TP3 that is stored and reached
ExpectedHit ==
    IF LevelReached("TP1") THEN "TP1"
    ELSE IF LevelReached("TP2") THEN "TP2"
    ELSE IF LevelReached("TP3") THEN "TP3"
    ELSE NoneStr

----------------------------------------------------------------------------
(* Inputs of the entry scorer *)

BarFlatSpike == Candle(100, 100, 100, 100, 30)
BarHammerSpike == Candle(100, 101, 96, 101, 30)
BarWideLow == Candle(100, 100, 30, 100, 10)
BarWideHigh == Candle(100, 110, 100, 100, 10)

EntryBars == {BarFlat, BarFlatSpike, BarHammerSpike, BarInvHammer}

EntryWindows1m ==
    {Flat(n, 100, 10) \o t : n \in {48, 50}, t \in Tails(EntryBars, MaxTail)}

EntryDf1m == {MkDf(cs, r7, r14, EmaEqual, up) :
                 cs \in EntryWindows1m, r7 \in {0, 20, 80}, r14 \in {20, 80},
                 up \in BOOLEAN}

EntryDf5m == {MkDf(Flat(n, 100, 10) \o t, 50, 50, e, FALSE) :
                 n \in {49, 50}, t \in Tails({BarWideLow, BarWideHigh}, 1),
                 e \in {EmaSteadyBull, EmaSteadyBear, EmaEqual}}

Trends == {"bullish", "bearish", "neutral"}

InitEntry ==
    /\ pc = "entry_input"
    /\ df_1m \in EntryDf1m
    /\ df_5m \in EntryDf5m
    /\ btc_trend \in Trends
    /\ signal = DefaultSignal
    /\ long_conditions = NoConditions
    /\ short_conditions = NoConditions
    /\ valid = FALSE
    /\ ExitIdle
    /\ BotIdle
    /\ AuxIdle

\* check_entry_conditions on the drawn windows; the two scores it computed
\* are kept beside the signal
CheckEntry ==
    /\ pc = "entry_input"
    /\ signal' = check_entry_conditions(df_1m, df_5m, btc_trend)
    /\ LET analysis_1m == get_comprehensive_analysis(df_1m)
           analysis_5m == get_comprehensive_analysis(df_5m)
       IN /\ long_conditions' =
               IF DfLen(df_1m) < 50 \/ DfLen(df_5m) < 50 THEN NoConditions
               ELSE _check_long_conditions(analysis_1m, analysis_5m, btc_trend)
          /\ short_conditions' =
               IF DfLen(df_1m) < 50 \/ DfLen(df_5m) < 50 THEN NoConditions
               ELSE _check_short_conditions(analysis_1m, analysis_5m, btc_trend)
    \* check_entry_conditions_frame(df_1m, df_5m, btc_trend), on the signal above
    /\ df_1m' = IF signal'.has_signal THEN calculate_atr_stop_loss_frame(df_1m) ELSE df_1m
    /\ pc' = "entry_done"
    /\ UNCHANGED <<position, df_5m, exit_analysis, btc_trend, valid, botVars, auxVars, runVars>>

NextEntry == CheckEntry

SpecEntry == InitEntry /\ [][NextEntry]_vars

----------------------------------------------------------------------------
(* Properties of the entry decision *)

EntryDone == pc = "entry_done"
Scored == EntryDone /\ DfLen(df_1m) >= 50 /\ DfLen(df_5m) >= 50

\* C2: a signal is emitted only if the winning direction's score is >= 3 and
\* strictly greater than the other direction's score; the emitted direction
\* is the one with the larger score; equal scores emit no signal, whatever
\* their value.
C2_EntryDecision ==
    EntryDone =>
        /\ signal.has_signal =>
             /\ signal.direction \in {"LONG", "SHORT"}
             /\ signal.direction = "LONG" =>
                  /\ long_conditions.score >= 3
                  /\ long_conditions.score > short_conditions.score
                  /\ signal.strength = long_conditions.score
             /\ signal.direction = "SHORT" =>
                  /\ short_conditions.score >= 3
                  /\ short_conditions.score > long_conditions.score
                  /\ signal.strength = short_conditions.score
        /\ long_conditions.score = short_conditions.score => ~signal.has_signal

C2_Witness ==
    /\ Scored
    /\ long_conditions.score = short_conditions.score
    /\ long_conditions.score >= 3
    /\ ~signal.has_signal

\* C3: the strength assigned by entry scoring, the score of either direction
\* and the strength copied into the signal, is an integer in 0..7.
C3_StrengthInRange ==
    EntryDone =>
        /\ long_conditions.score \in 0..7
        /\ short_conditions.score \in 0..7
        /\ signal.strength \in 0..7

\* the mirror image of an input of the scorer: bullish and bearish, rising
\* and falling, each pattern and its opposite change places
Opposite(x) ==
    CASE x = "bullish" -> "bearish"
      [] x = "bearish" -> "bullish"
      [] x = "rising" -> "falling"
      [] x = "falling" -> "rising"
      [] OTHER -> x

MirrorPatterns(p) ==
    [doji |-> p.doji,
     hammer |-> p.inverted_hammer, inverted_hammer |-> p.hammer,
     bullish_engulfing |-> p.bearish_engulfing, bearish_engulfing |-> p.bullish_engulfing,
     bullish_pinbar |-> p.bearish_pinbar, bearish_pinbar |-> p.bullish_pinbar]

\* the pivot of the reflection is the support itself: the reflected support
\* is then the resistance at the same price, and a price within 2% above the
\* one lies within 2% below the other
Pivot(analysis_5m) == 2 * analysis_5m.support.v

MirrorValue(x, around) == IF IsNum(x) THEN Num(around - x.v) ELSE x

Mirror1m(analysis_1m, pivot) ==
    [analysis_1m EXCEPT
        !.rsi_7 = MirrorValue(@, 100),
        !.rsi_14 = MirrorValue(@, 100),
        !.obv_trend = Opposite(@),
        !.candlestick_patterns = MirrorPatterns(@),
        !.current_price = MirrorValue(@, pivot)]

Mirror5m(analysis_5m, pivot) ==
    [analysis_5m EXCEPT
        !.trend = Opposite(@),
        !.support = MirrorValue(analysis_5m.resistance, pivot),
        !.resistance = MirrorValue(analysis_5m.support, pivot)]

MirroredShortScore ==
    LET analysis_1m == get_comprehensive_analysis(df_1m)
        analysis_5m == get_comprehensive_analysis(df_5m)
    IN _check_short_conditions(Mirror1m(analysis_1m, Pivot(analysis_5m)),
                               Mirror5m(analysis_5m, Pivot(analysis_5m)),
                               Opposite(btc_trend)).score

\* C10: the short rules applied to the mirrored input (prices and support /
\* resistance reflected around a pivot, each RSI replaced by 100 - RSI,
\* trends, OBV trend and pattern flags swapped) give the score the long
\* rules give on the original input.
C10_MirrorSymmetric ==
    Scored => MirroredShortScore = long_conditions.score

\* The mirror holds for every drawn input whose RSI values are not exactly 0:
\* an RSI of 0.0 is falsy for "if rsi_7 and rsi_7 < 30", its mirror image 100 is not.
MirrorSymmetricAwayFromZero ==
    Scored /\ df_1m.rsi7 # 0 /\ df_1m.rsi14 # 0 => MirroredShortScore = long_conditions.score

\* Each direction has eight rules worth one point each.
StrengthAtMostEight ==
    EntryDone =>
        /\ long_conditions.score \in 0..8
        /\ short_conditions.score \in 0..8
        /\ signal.strength \in 0..8

----------------------------------------------------------------------------
(* Inputs of the quality gate *)

GateValues == {None, NaN, Num(0), Num(0 - Tick), Num(100 * Tick)}

GateLevels ==
    {NoLevels,
     [TP1 |-> 101 * Tick, TP2 |-> 102 * Tick, TP3 |-> 103 * Tick],
     [TP1 |-> 101 * Tick, TP2 |-> 102 * Tick, TP3 |-> 0],
     calculate_fibonacci_levels(100 * Tick, 30 * Tick, "short")}

GateSignals ==
    {[DefaultSignal EXCEPT
         !.has_signal = h, !.strength = s, !.price = p, !.stop_loss = sl,
         !.fibonacci_levels = f, !.direction = "LONG"] :
        h \in BOOLEAN, s \in {0, 2, 3, 8}, p \in GateValues, sl \in GateValues,
        f \in GateLevels}

InitQuality ==
    /\ pc = "quality_input"
    /\ signal \in GateSignals
    /\ valid = FALSE
    /\ btc_trend = "neutral"
    /\ long_conditions = NoConditions
    /\ short_conditions = NoConditions
    /\ df_1m = EmptyDf
    /\ df_5m = EmptyDf
    /\ ExitIdle
    /\ BotIdle
    /\ AuxIdle

ValidateSignal ==
    /\ pc = "quality_input"
    /\ valid' = validate_signal_quality(signal)
    /\ pc' = "quality_done"
    /\ UNCHANGED <<position, df_1m, df_5m, exit_analysis, btc_trend, signal,
                   long_conditions, short_conditions, botVars, auxVars, runVars>>

NextQuality == ValidateSignal

SpecQuality == InitQuality /\ [][NextQuality]_vars

----------------------------------------------------------------------------
(* Properties of the quality gate *)

QualityDone == pc = "quality_done"

Positive(x) == IsNum(x) /\ x.v > 0
AllLevelsPositive(levels) == \A k \in DOMAIN levels : levels[k] > 0

----------------------------------------------------------------------------
(* The analysis cycle of the bot *)

MaxCycles == 2

monitored_pairs == <<"ETH_USDT", "SOL_USDT">>

\* what get_market_data can return for the reference pair
BtcBull == MkDf(Flat(50, 100, 10), 50, 50, EmaSteadyBull, TRUE)
BtcBear == MkDf(Flat(50, 100, 10), 50, 50, EmaSteadyBear, FALSE)
BotBtcData == {EmptyDf, BtcBull, BtcBear}

\* what get_market_data can return for a monitored pair: nothing, a quiet
\* market, an oversold hammer on support, an overbought inverted hammer
\* below resistance, and the same after a 5m wick down to 30
Market(data_1m, data_5m) == [data_1m |-> data_1m, data_5m |-> data_5m]
MarketEmpty == Market(EmptyDf, EmptyDf)
MarketQuiet ==
    Market(MkDf(Flat(50, 100, 10) \o <<BarUp>>, 50, 50, EmaEqual, TRUE),
           MkDf(Flat(50, 100, 10) \o <<BarWideLow, BarWideHigh>>, 50, 50, EmaEqual, FALSE))
MarketOversold ==
    Market(MkDf(Flat(50, 100, 10) \o <<BarHammerSpike>>, 20, 20, EmaEqual, TRUE),
           MkDf(Flat(50, 100, 10), 50, 50, EmaSteadyBull, FALSE))
MarketOverbought ==
    Market(MkDf(Flat(50, 100, 10) \o <<BarInvHammer>>, 80, 80, EmaEqual, FALSE),
           MkDf(Flat(50, 100, 10), 50, 50, EmaSteadyBear, FALSE))
MarketOverboughtAfterWick ==
    Market(MkDf(Flat(50, 100, 10) \o <<BarInvHammer>>, 80, 80, EmaEqual, FALSE),
           MkDf(Flat(50, 100, 10) \o <<BarWideLow>>, 50, 50, EmaSteadyBear, FALSE))
BotMarkets ==
    {MarketEmpty, MarketQuiet, MarketOversold, MarketOverbought, MarketOverboughtAfterWick}

InitBot ==
    /\ pc = "idle"
    /\ BotIdle
    /\ AuxIdle
    /\ EntryIdle
    /\ ExitIdle
    /\ df_1m = EmptyDf
    /\ df_5m = EmptyDf

\* run, lines 258-263, and analyze_market, lines 107-125: a cycle starts and
\* the reference pair is fetched and classified
AnalyzeMarketBegin ==
    /\ pc = "idle"
    /\ cycle_count < MaxCycles
    /\ \E btc_data \in BotBtcData :
         IF DfEmpty(btc_data)
         THEN /\ pc' = "cycle_end"
              /\ UNCHANGED btc_trend
         ELSE /\ pc' = "analyzing"
              /\ btc_trend' = analyze_btc_trend(btc_data)
    /\ signals_found' = <<>>
    /\ pair_idx' = 1
    /\ cycle_start_time' = now
    /\ UNCHANGED <<position, df_1m, df_5m, exit_analysis, signal, long_conditions,
                   short_conditions, valid, send_idx, last_alert, signals_sent_today,
                   cycle_count, message_cache, now, auxVars, runVars>>

PairsThisCycle ==
    IF Len(monitored_pairs) < max_pairs_per_cycle
    THEN Len(monitored_pairs) ELSE max_pairs_per_cycle

\* analyze_market, lines 127-151: one pass of the loop over the pairs (its
\* pause of 0.1 s is below the resolution of the clock)
AnalyzeSymbol ==
    /\ pc = "analyzing"
    /\ pair_idx <= PairsThisCycle
    /\ \E m \in BotMarkets :
         /\ df_1m' = IF DfEmpty(m.data_1m) \/ DfEmpty(m.data_5m) THEN m.data_1m
                      ELSE check_entry_conditions_frame(m.data_1m, m.data_5m, btc_trend)
         /\ df_5m' = m.data_5m
         /\ IF DfEmpty(m.data_1m) \/ DfEmpty(m.data_5m)
            THEN UNCHANGED <<signal, valid, signals_found, runVars>>
            ELSE LET s == check_entry_conditions(m.data_1m, m.data_5m, btc_trend)
                 IN /\ signal' = s
                    /\ valid' = validate_signal_quality(s)
                    /\ signals_found' =
                         IF KeepSignal(s)
                         THEN Append(signals_found,
                                     [symbol |-> monitored_pairs[pair_idx], signal |-> s])
                         ELSE signals_found
    /\ pair_idx' = pair_idx + 1
    /\ UNCHANGED <<pc, position, exit_analysis, btc_trend, long_conditions,
                   short_conditions, send_idx, last_alert, signals_sent_today,
                   cycle_count, cycle_start_time, message_cache, now, auxVars, runVars>>

\* analyze_market returns; run_analysis_cycle, lines 228-229, sends what was found
AnalyzeMarketReturn ==
    /\ pc = "analyzing"
    /\ pair_idx > PairsThisCycle
    /\ pc' = IF signals_found # <<>> THEN "sending" ELSE "cycle_end"
    /\ send_idx' = 1
    /\ UNCHANGED <<position, df_1m, df_5m, exit_analysis, btc_trend, signal,
                   long_conditions, short_conditions, valid, pair_idx, signals_found,
                   last_alert, signals_sent_today, cycle_count, cycle_start_time,
                   message_cache, now, auxVars, runVars>>

\* send_signals, lines 175-197: one pass of the loop; the alert is formatted
\* and posted unless its text was accepted within cache_duration, and the
\* API answers 200 or not
SendSignal ==
    /\ pc = "sending"
    /\ send_idx <= Len(signals_found)
    /\ LET found == signals_found[send_idx]
           text == AlertText(found.symbol, found.signal, now)
       IN /\ last_alert' = found
          /\ \E status \in {200, 500} :
               LET posted == AlertFormats(found.signal) /\ ~CacheHit(message_cache, text, now)
                   success ==
                       AlertFormats(found.signal)
                       /\ (CacheHit(message_cache, text, now) \/ status = 200)
               IN /\ message_cache' =
                       IF posted /\ status = 200
                       THEN CachePut(message_cache, text, now) ELSE message_cache
                  /\ signals_sent_today' =
                       IF success THEN signals_sent_today + 1 ELSE signals_sent_today
    /\ send_idx' = send_idx + 1
    /\ now' = now + 2
    /\ UNCHANGED <<pc, position, df_1m, df_5m, exit_analysis, btc_trend, signal,
                   long_conditions, short_conditions, valid, pair_idx, signals_found,
                   cycle_count, cycle_start_time, auxVars, runVars>>

SendSignalsReturn ==
    /\ pc = "sending"
    /\ send_idx > Len(signals_found)
    /\ pc' = "cycle_end"
    /\ UNCHANGED <<position, df_1m, df_5m, exit_analysis, btc_trend, signal,
                   long_conditions, short_conditions, valid, botVars, auxVars, runVars>>

\* run_analysis_cycle, line 233, and run, lines 265-278: the cache is
\* cleared, the cycle is counted and the loop sleeps
EndCycle ==
    /\ pc = "cycle_end"
    /\ message_cache' = clear_message_cache(message_cache, now)
    /\ cycle_count' = cycle_count + 1
    /\ now' = now + Max2(300 - (now - cycle_start_time), 60)
    /\ pc' = "idle"
    /\ UNCHANGED <<position, df_1m, df_5m, exit_analysis, btc_trend, signal,
                   long_conditions, short_conditions, valid, pair_idx, signals_found,
                   send_idx, last_alert, signals_sent_today, cycle_start_time, auxVars, runVars>>

NextBot ==
    \/ AnalyzeMarketBegin
    \/ AnalyzeSymbol
    \/ AnalyzeMarketReturn
    \/ SendSignal
    \/ SendSignalsReturn
    \/ EndCycle

SpecBot == InitBot /\ [][NextBot]_vars

----------------------------------------------------------------------------
(* Properties of the analysis cycle *)

\* C5: every signal handed to send_signal_alert has passed
\* validate_signal_quality, and so has every signal analyze_market kept for
\* sending; a signal that fails the gate is never sent.
C5_AlertedPassedGate ==
    /\ last_alert # NoAlert => validate_signal_quality(last_alert.signal)
    /\ \A i \in 1..Len(signals_found) : validate_signal_quality(signals_found[i].signal)
    /\ pc = "analyzing" /\ signal.has_signal /\ ~valid =>
         \A i \in 1..Len(signals_found) : signals_found[i].signal # signal

\* an alert went out in a cycle in which another pair's signal failed the gate
C5_Witness ==
    /\ last_alert # NoAlert
    /\ signals_sent_today >= 1
    /\ signal.has_signal /\ ~valid
    /\ last_alert.signal # signal
    /\ cycle_count >= 1

----------------------------------------------------------------------------
(* calculate_fibonacci_levels on drawn extremes *)

\* prices of the extremes, in ticks; every difference is a multiple of 500
\* ticks, so that the four ratios give whole ticks
FibPrices == {1 * Tick, 30 * Tick, 90 * Tick, 100 * Tick, 100 * Tick + 500,
              101 * Tick, 110 * Tick, 120 * Tick}

FibDirections == {"long", "short", "LONG", "Short"}

FibArgs == {[high |-> h, low |-> l, direction |-> d, levels |-> NoLevels] :
               h \in FibPrices, l \in FibPrices, d \in FibDirections}

InitFib ==
    /\ pc = "fib_input"
    /\ fib \in {f \in FibArgs : f.low <= f.high}
    /\ analysis = EmptyAnalysis
    /\ spike = FALSE
    /\ active_positions = NoPositions
    /\ reversal_signal = NoReversal
    /\ df_1m = EmptyDf
    /\ df_5m = EmptyDf
    /\ EntryIdle
    /\ ExitIdle
    /\ BotIdle

ComputeFib ==
    /\ pc = "fib_input"
    /\ fib' = [fib EXCEPT !.levels = calculate_fibonacci_levels(fib.high, fib.low, fib.direction)]
    /\ pc' = "fib_done"
    /\ UNCHANGED <<position, df_1m, df_5m, exit_analysis, btc_trend, signal,
                   long_conditions, short_conditions, valid, botVars,
                   analysis, spike, active_positions,
                   reversal_signal, runVars>>

NextFib == ComputeFib

SpecFib == InitFib /\ [][NextFib]_vars

FibDone == pc = "fib_done"

\* level = base + sign x diff x ratio / 1000, without a division
AtRatio(level, base, sign, diff, ratio) == level * 1000 = base * 1000 + sign * diff * ratio

\* C11: TPn = low + (high - low) x ratio_n for long and high - (high - low) x
\* ratio_n for short, with ratios 0.382, 0.618, 1.0, 1.618; for high > low
\* the long targets satisfy low <= TP1 < TP2 < TP3 = high <= high + (high - low),
\* the short targets TP1 > TP2 > TP3 = low; for high = 110, low = 100 the
\* long targets are 103.82, 106.18, 110.0, 116.18.
C11_FibonacciLevels ==
    FibDone =>
        LET l == fib.levels
            diff == fib.high - fib.low
            long == Lower(fib.direction) = "long"
        IN /\ DOMAIN l = {"TP1", "TP2", "TP3", "TP4"}
           /\ long =>
                /\ AtRatio(l.TP1, fib.low, 1, diff, 382)
                /\ AtRatio(l.TP2, fib.low, 1, diff, 618)
                /\ AtRatio(l.TP3, fib.low, 1, diff, 1000)
                /\ AtRatio(l.TP4, fib.low, 1, diff, 1618)
           /\ ~long =>
                /\ AtRatio(l.TP1, fib.high, -1, diff, 382)
                /\ AtRatio(l.TP2, fib.high, -1, diff, 618)
                /\ AtRatio(l.TP3, fib.high, -1, diff, 1000)
                /\ AtRatio(l.TP4, fib.high, -1, diff, 1618)
           /\ long /\ fib.high > fib.low =>
                /\ fib.low <= l.TP1 /\ l.TP1 < l.TP2 /\ l.TP2 < l.TP3
                /\ l.TP3 = fib.high /\ fib.high <= fib.high + diff
           /\ ~long /\ fib.high > fib.low =>
                /\ l.TP1 > l.TP2 /\ l.TP2 > l.TP3 /\ l.TP3 = fib.low
           /\ long /\ fib.high = 110 * Tick /\ fib.low = 100 * Tick =>
                /\ l.TP1 * 100 = 10382 * Tick /\ l.TP2 * 100 = 10618 * Tick
                /\ l.TP3 = 110 * Tick /\ l.TP4 * 100 = 11618 * Tick

\* the worked example, asked for in capitals
C11_Witness ==
    /\ FibDone
    /\ fib.direction = "LONG" /\ fib.high = 110 * Tick /\ fib.low = 100 * Tick
    /\ fib.levels.TP1 * 100 = 10382 * Tick


----------------------------------------------------------------------------
(* The indicator engine on drawn windows: get_comprehensive_analysis and    *)
(* the module-level detect_volume_spike                                     *)

BarVolumeDouble == Candle(100, 100, 100, 100, 20)
BarVolumeOver == Candle(100, 100, 100, 100, 21)
BarHeavy == Candle(100, 100, 100, 100, 1000)
\* bars no exchange can produce: high below low, and a negative volume
BarCrossed == Candle(100, 98, 102, 100, 10)
BarNegVolume == Candle(100, 100, 100, 100, -10)

SnapshotBars == {BarFlat, BarVolumeDouble, BarVolumeOver, BarFlatSpike, BarCrossed,
                 BarNegVolume}

SnapshotLengths == {0, 5, 6, 12, 13, 18, 19, 20, 48, 49}

SnapshotWindows ==
    {h \o Flat(n, 100, 10) \o t :
        h \in {<<>>, <<BarHeavy>>}, n \in SnapshotLengths,
        t \in Tails(SnapshotBars, MaxTail)}

SnapshotFails == {{}, {"rsi"}, {"ema"}, {"obv"}, {"atr"}}

\* the last two OBV values: a rise, a fall and a tie
ObvPairs == {<<0, 10>>, <<10, 0>>, <<10, 10>>}

\* what the library returns for a window: RSI(7) and the OBV pair
SnapshotOracles == {x \in {0, 100} \X ObvPairs : x[2][1] = x[2][2] => x[1] = 0}

SnapshotDf ==
    {Failing(WithObv(MkDf(cs, x[1], 50, EmaEqual, FALSE), x[2][1], x[2][2]), f) :
        cs \in SnapshotWindows, x \in SnapshotOracles, f \in SnapshotFails}

InitSnapshot ==
    /\ pc = "snapshot_input"
    /\ df_1m \in SnapshotDf
    /\ df_5m = EmptyDf
    /\ AuxIdle
    /\ EntryIdle
    /\ ExitIdle
    /\ BotIdle

\* analysis = ta.get_comprehensive_analysis(df)
Analyze ==
    /\ pc = "snapshot_input"
    /\ analysis' = get_comprehensive_analysis(df_1m)
    /\ pc' = "snapshot_analyzed"
    /\ UNCHANGED <<position, df_1m, df_5m, exit_analysis, btc_trend, signal,
                   long_conditions, short_conditions, valid, botVars, spike, fib,
                   active_positions, reversal_signal, runVars>>

\* helpers.detect_volume_spike(df) with its default parameters
DetectSpike ==
    /\ pc = "snapshot_analyzed"
    /\ spike' = helpers_detect_volume_spike(df_1m, 2, 20)
    /\ pc' = "snapshot_done"
    /\ UNCHANGED <<position, df_1m, df_5m, exit_analysis, btc_trend, signal,
                   long_conditions, short_conditions, valid, botVars, analysis, fib,
                   active_positions, reversal_signal, runVars>>

NextSnapshot == Analyze \/ DetectSpike

SpecSnapshot == InitSnapshot /\ [][NextSnapshot]_vars

SnapshotDone == pc = "snapshot_done"

RECURSIVE VolumeSum(_, _, _)
VolumeSum(cs, from, to) ==
    IF from > to THEN 0 ELSE cs[from].volume + VolumeSum(cs, from + 1, to)

\* the latest volume against multiplier times the mean of the lookback bars
\* before it
SpikeOverMean(df, multiplier, lookback) ==
    LET n == DfLen(df)
    IN /\ n >= lookback + 1
       /\ df.candles[n].volume * lookback
              > multiplier * VolumeSum(df.candles, n - lookback, n - 1)

SpikeLookbacks == {1, 2, 20}
SpikeMultipliers == {2, 3}

\* C12: detect_volume_spike is false on fewer than lookback+1 bars, and on
\* lookback+1 bars or more it is true exactly when the latest volume is
\* strictly above multiplier times the mean volume of the lookback bars
\* before the latest one; both the method and the module-level function
C12_VolumeSpike ==
    SnapshotDone =>
        /\ ~analysis.empty => (analysis.volume_spike <=> SpikeOverMean(df_1m, 2, 20))
        /\ spike <=> SpikeOverMean(df_1m, 2, 20)
        /\ \A lb \in SpikeLookbacks, m \in SpikeMultipliers :
              /\ detect_volume_spike(df_1m, m, lb) <=> SpikeOverMean(df_1m, m, lb)
              /\ helpers_detect_volume_spike(df_1m, m, lb) <=> SpikeOverMean(df_1m, m, lb)
              /\ DfLen(df_1m) < lb + 1 => ~detect_volume_spike(df_1m, m, lb)

\* exactly 21 bars, the latest at volume 21 over twenty bars of volume 10
C12_Witness ==
    /\ SnapshotDone
    /\ DfLen(df_1m) = 21
    /\ ILoc(df_1m, 1).volume = 21
    /\ VolumeSum(df_1m.candles, 1, 20) = 200
    /\ spike
    /\ analysis.volume_spike


\* what each field of the snapshot needs: bars, and a library call that
\* does not raise
Computable(df, field) ==
    CASE field = "rsi_7" -> DfLen(df) >= 7 /\ "rsi" \notin df.fails
      [] field = "rsi_14" -> DfLen(df) >= 14 /\ "rsi" \notin df.fails
      [] field = "ema_20" -> DfLen(df) >= 20 /\ "ema" \notin df.fails
      [] field = "ema_50" -> DfLen(df) >= 50 /\ "ema" \notin df.fails
      [] field = "obv" -> DfLen(df) >= 1 /\ "obv" \notin df.fails
      [] field = "atr" -> DfLen(df) >= 14 /\ "atr" \notin df.fails
      [] field = "support" -> DfLen(df) >= 20
      [] field = "resistance" -> DfLen(df) >= 20
      [] field = "current_price" -> DfLen(df) >= 1
      [] field = "current_volume" -> DfLen(df) >= 1

SnapshotFields == {"rsi_7", "rsi_14", "ema_20", "ema_50", "obv", "atr", "support",
                   "resistance", "current_price", "current_volume"}

Present(field) == analysis[field] # None

\* C13: whatever indicator cannot be computed on a window, for lack of bars
\* or because its calculation failed, every indicator that is computable on
\* that window is present in the snapshot.
C13_IndependentIndicators ==
    SnapshotDone => \A f \in SnapshotFields : Computable(df_1m, f) => Present(f)

\* What the engine does give: the fields are independent of one another as
\* long as no RSI or EMA call fails on a window that is long enough for it.
IndependentUnlessReadRaises ==
    SnapshotDone /\ ~SnapshotReadRaises(df_1m) =>
        \A f \in SnapshotFields : Computable(df_1m, f) <=> Present(f)

\* a failed RSI call on seven bars or more empties the whole snapshot
SnapshotLostToOneFailure ==
    SnapshotDone /\ SnapshotReadRaises(df_1m) => analysis = EmptyAnalysis


\* the bars each numeric field of the snapshot needs before it has a value
NeededBars(field) ==
    CASE field = "rsi_7" -> 7
      [] field = "rsi_14" -> 14
      [] field = "ema_20" -> 20
      [] field = "ema_50" -> 50
      [] field = "atr" -> 14
      [] field = "support" -> 20
      [] field = "resistance" -> 20
      [] field \in {"obv", "current_price", "current_volume"} -> 1

Optional(x) == x = None \/ x = NaN \/ x = Some \/ IsNum(x)

WellFormedSnapshot(a) ==
    /\ a.empty \in BOOLEAN
    /\ \A f \in SnapshotFields : Optional(a[f])
    /\ a.obv_trend \in {"rising", "falling", NoneStr}
    /\ a.trend \in {"bullish", "bearish", "neutral", NoneStr}
    /\ a.volume_spike \in BOOLEAN
    /\ \A k \in DOMAIN a.candlestick_patterns : a.candlestick_patterns[k] \in BOOLEAN

WellFormedSignal(s) ==
    /\ s.has_signal \in BOOLEAN
    /\ s.direction \in {"LONG", "SHORT", NoneStr}
    /\ s.strength \in 0..8
    /\ Len(s.reasons) = s.strength
    /\ Optional(s.price) /\ Optional(s.rsi_7) /\ Optional(s.rsi_14)
    /\ Optional(s.stop_loss)
    /\ s.volume_spike \in BOOLEAN
    /\ DOMAIN s.fibonacci_levels \in {{}, {"TP1", "TP2", "TP3", "TP4"}}

WellFormedExit(e) ==
    /\ e.should_exit \in BOOLEAN
    /\ e.exit_type \in {"take_profit", "stop_loss", "reversal", "trailing_stop", NoneStr}
    /\ e.should_exit <=> e.exit_type # NoneStr
    /\ Optional(e.suggested_exit_price)
    /\ e.fibonacci_hit \in {"TP1", "TP2", "TP3", "TP4", NoneStr}

\* positions with and without their fields; a missing field reads as the
\* default of its .get()
TotalityPositions ==
    {[direction |-> d, entry_price |-> e * Tick, fibonacci_levels |-> f] :
        d \in {"LONG", "short", ""}, e \in {0, 100},
        f \in {NoLevels, calculate_fibonacci_levels(110 * Tick, 100 * Tick, "long")}}

BadCandle(c) ==
    \/ c.high < c.open \/ c.high < c.close \/ c.high < c.low
    \/ c.low > c.open \/ c.low > c.close
    \/ c.volume < 0

MalformedSeries(df) == \E i \in 1..DfLen(df) : BadCandle(df.candles[i])

\* C16: on a window with a candle that breaks the OHLC invariant (or with
\* timestamps out of order) the engine returns the wholly absent snapshot
\* and computes nothing on it.
C16_MalformedRejected ==
    SnapshotDone /\ MalformedSeries(df_1m) => analysis = EmptyAnalysis

\* The engine computes on whatever it is given: a malformed window without a
\* failing RSI or EMA call gets the same snapshot as any other.
MalformedComputed ==
    SnapshotDone /\ ~DfEmpty(df_1m) /\ ~SnapshotReadRaises(df_1m) =>
        /\ ~analysis.empty
        /\ analysis.current_price = Num(ILoc(df_1m, 1).close)
        /\ analysis.current_volume = Num(ILoc(df_1m, 1).volume)

RsiField(p) == IF p = 7 THEN analysis.rsi_7 ELSE analysis.rsi_14

\* C17: for the periods 7 and 14 of the snapshot, the RSI field is absent
\* whenever the window has fewer than p+1 bars, and a present value lies in
\* [0,100].
C17_RsiAvailability ==
    SnapshotDone =>
        \A p \in {7, 14} :
            /\ DfLen(df_1m) < p + 1 => RsiField(p) = None
            /\ IsNum(RsiField(p)) => RsiField(p).v \in 0..100

\* The guard of the snapshot is len(df) >= p: the field is absent below p
\* bars and has a value from p bars on, unless an RSI or EMA call fails.
RsiFromPeriodBars ==
    SnapshotDone =>
        \A p \in {7, 14} :
            /\ DfLen(df_1m) < p => RsiField(p) = None
            /\ DfLen(df_1m) >= p /\ ~SnapshotReadRaises(df_1m) => IsNum(RsiField(p))
            /\ IsNum(RsiField(p)) => RsiField(p).v \in 0..100

----------------------------------------------------------------------------
(* The OBV trend of the snapshot (SpecSnapshot) *)

\* the OBV series of the window has two values and the latest exceeds the
\* previous one
ObvRose ==
    /\ "obv" \notin df_1m.fails
    /\ DfLen(df_1m) >= 2
    /\ df_1m.obv[2] > df_1m.obv[1]

ObvTied ==
    /\ "obv" \notin df_1m.fails
    /\ DfLen(df_1m) >= 2
    /\ df_1m.obv[2] = df_1m.obv[1]

Reasons(seq) == {seq[i] : i \in 1..Len(seq)}

\* the short scorer on this snapshot, with no long-timeframe snapshot
ShortReasonsOfSnapshot(btc) ==
    Reasons(_check_short_conditions(analysis, EmptyAnalysis, btc).reasons)

LongReasonsOfSnapshot(btc) ==
    Reasons(_check_long_conditions(analysis, EmptyAnalysis, btc).reasons)

\* the reversal tally of a long position on this window, against a bearish
\* long-timeframe window: the trend signal is there, so any second signal
\* makes the exit and is listed
LongReversalOfSnapshot ==
    _check_trend_reversal(
        [direction |-> "LONG", entry_price |-> 100 * Tick, fibonacci_levels |-> NoLevels],
        df_1m, MkDf(Flat(51, 100, 10), 50, 50, EmaSteadyBear, FALSE))

ObvTrendRule ==
    /\ analysis.obv_trend \in {"rising", "falling"}
    /\ analysis.obv_trend = "rising" <=> ObvRose

\* the value of obv_trend decides the OBV rule of both scorers and the OBV
\* signal of the reversal tally
ObvTrendCounts ==
    /\ \A btc \in {"bullish", "bearish", "neutral"} :
          /\ "OBV em queda" \in ShortReasonsOfSnapshot(btc)
                <=> analysis.obv_trend = "falling"
          /\ "OBV em alta" \in LongReasonsOfSnapshot(btc)
                <=> analysis.obv_trend = "rising"
    /\ "OBV divergente (falling)" \in Reasons(LongReversalOfSnapshot.reason)
          <=> analysis.obv_trend = "falling"

----------------------------------------------------------------------------
(* The windows across a call of the evaluators (SpecEntry, SpecExit) *)

\* C15: a call of check_entry_conditions or analyze_exit_conditions leaves
\* both windows it was given with the same columns and the same values.
C15_WindowsUntouched == [][df_1m' = df_1m /\ df_5m' = df_5m]_vars

\* What does hold: the candles keep their values and the long-timeframe
\* window is untouched; the short one may only gain the true-range columns.
OnlyColumnsAdded ==
    [][/\ df_5m' = df_5m
       /\ df_1m'.candles = df_1m.candles
       /\ df_1m.columns \subseteq df_1m'.columns
       /\ df_1m'.columns \subseteq df_1m.columns \cup TrueRangeColumns]_vars


----------------------------------------------------------------------------
(* The position cache of the ExitManager next to its evaluator *)

MaxCalls == 3

CacheSymbols == {"BTC_USDT", "ETH_USDT"}

CachePositions ==
    {[direction |-> d, entry_price |-> 100 * Tick,
      fibonacci_levels |-> calculate_fibonacci_levels(110 * Tick, 100 * Tick, d)] :
        d \in {"LONG", "SHORT"}}
    \cup {NoPosition}

CacheDf1m == {MkDf(Flat(14, p, 10), 50, 50, EmaEqual, FALSE) : p \in {100, 104}}
CacheDf5m == {MkDf(Flat(51, 100, 10), 50, 50, EmaEqual, FALSE)}

InitCache ==
    /\ pc = "cache_idle"
    /\ df_1m = EmptyDf
    /\ df_5m = EmptyDf
    /\ ExitIdle
    /\ EntryIdle
    /\ BotIdle
    /\ AuxIdle

\* self.active_positions[symbol] = {**position_data, 'last_update': now}
update_position_cache ==
    /\ now < MaxCalls
    /\ \E symbol \in CacheSymbols, position_data \in CachePositions :
         active_positions' =
             [s \in DOMAIN active_positions \cup {symbol} |->
                 IF s = symbol
                 THEN [direction |-> position_data.direction,
                       entry_price |-> position_data.entry_price,
                       fibonacci_levels |-> position_data.fibonacci_levels,
                       last_update |-> now]
                 ELSE active_positions[s]]
    /\ now' = now + 1
    /\ pc' = "cache_updated"
    /\ UNCHANGED <<position, df_1m, df_5m, exit_analysis, btc_trend, signal,
                   long_conditions, short_conditions, valid, pair_idx, signals_found,
                   send_idx, last_alert, signals_sent_today, cycle_count,
                   cycle_start_time, message_cache, analysis, spike, fib,
                   reversal_signal, runVars>>

\* if symbol in self.active_positions: del self.active_positions[symbol]
remove_position_from_cache ==
    /\ now < MaxCalls
    /\ \E symbol \in CacheSymbols :
         active_positions' =
             [s \in DOMAIN active_positions \ {symbol} |-> active_positions[s]]
    /\ now' = now + 1
    /\ pc' = "cache_removed"
    /\ UNCHANGED <<position, df_1m, df_5m, exit_analysis, btc_trend, signal,
                   long_conditions, short_conditions, valid, pair_idx, signals_found,
                   send_idx, last_alert, signals_sent_today, cycle_count,
                   cycle_start_time, message_cache, analysis, spike, fib,
                   reversal_signal, runVars>>

\* exit_manager.analyze_exit_conditions(symbol, position_data, data_1m, data_5m)
AnalyzeCached ==
    /\ now < MaxCalls
    /\ \E symbol \in CacheSymbols, position_data \in CachePositions,
          market_data_1m \in CacheDf1m, market_data_5m \in CacheDf5m :
         LET r == ExitManager_analyze_exit_conditions(active_positions, symbol,
                      position_data, market_data_1m, market_data_5m)
         IN /\ exit_analysis' = r.exit_analysis
            /\ active_positions' = r.active_positions
            /\ position' = position_data
            /\ df_1m' = analyze_exit_conditions_frame(position_data, market_data_1m,
                                                      market_data_5m)
            /\ df_5m' = market_data_5m
    /\ now' = now + 1
    /\ pc' = "cache_analyzed"
    /\ UNCHANGED <<btc_trend, signal, long_conditions, short_conditions, valid,
                   pair_idx, signals_found, send_idx, last_alert, signals_sent_today,
                   cycle_count, cycle_start_time, message_cache, analysis, spike, fib,
                   reversal_signal, runVars>>

NextCache == update_position_cache \/ remove_position_from_cache \/ AnalyzeCached

SpecCache == InitCache /\ [][NextCache]_vars

CacheAnalyzed == pc = "cache_analyzed"

----------------------------------------------------------------------------
(* The stop-loss sub-rules and the reversal tally (SpecExit) *)

StopResult == _check_dynamic_stop_loss(position, df_1m, df_5m)

AtrReasons == {<<"Stop Loss ATR atingido">>}
PrevCandleReasons == {<<"Preco rompeu minima do candle anterior">>,
                      <<"Preco rompeu maxima do candle anterior">>}
EmaCrossReasons == {<<"Cruzamento bearish das EMAs (20 < 50)">>,
                    <<"Cruzamento bullish das EMAs (20 > 50)">>}
RsiReasons == {<<"RSI extremamente baixo">>, <<"RSI extremamente alto">>}

AtrMatches == StopAtr(PosDirection, df_1m)
PrevCandleMatches == DfLen(df_1m) >= 2 /\ StopPrevCandle(PosDirection, df_1m)
EmaCrossMatches == StopEmaCross(PosDirection, df_5m)
RsiMatches == StopRsi(PosDirection, df_1m)

\* C19: the stop-loss sub-rules are tried in the order ATR level, previous
\* bar, EMA20/EMA50 cross, RSI(14) extreme, and the first that matches gives
\* the reason: the reason of a sub-rule is reported only when that sub-rule
\* matches and none before it does.  On a window of two bars or more a stop
\* is reported exactly when some sub-rule matches, and a stop-loss decision
\* carries the reason of the stop-loss check.
C19_StopLossOrder ==
    ExitDone /\ ~DfEmpty(df_1m) =>
        LET r == StopResult
            atr == AtrMatches
            prev == PrevCandleMatches
            ema == EmaCrossMatches
            rsi == RsiMatches
        IN /\ r.reason \in AtrReasons => atr
           /\ r.reason \in PrevCandleReasons => ~atr /\ prev
           /\ r.reason \in EmaCrossReasons => ~atr /\ ~prev /\ ema
           /\ r.reason \in RsiReasons => ~atr /\ ~prev /\ ~ema /\ rsi
           /\ r.should_stop <=>
                 r.reason \in AtrReasons \cup PrevCandleReasons
                                \cup EmaCrossReasons \cup RsiReasons
           /\ DfLen(df_1m) >= 2 =>
                 /\ atr => r.reason \in AtrReasons
                 /\ (r.should_stop <=> atr \/ prev \/ ema \/ rsi)
           /\ exit_analysis.exit_type = "stop_loss" => exit_analysis.exit_reason = r.reason

\* an RSI extreme and an ATR stop hold together and the ATR gives the reason
C19_Witness ==
    /\ ExitDone
    /\ ExitEvaluated
    /\ AtrMatches
    /\ RsiMatches
    /\ exit_analysis.exit_type = "stop_loss"
    /\ exit_analysis.exit_reason \in AtrReasons

\* the later sub-rules do give the reason when the earlier ones are silent
LaterStopRulesReached ==
    ExitDone => ~(StopResult.reason \in RsiReasons)


----------------------------------------------------------------------------
(* _check_trend_reversal on drawn positions and windows *)

ReversalBars == {BarFlat, BarDown, BarUp, BarInvHammer, BarHammerSpike}

ReversalWindows1m ==
    {Flat(n, 100, 10) \o t : n \in {1, 14}, t \in Tails(ReversalBars, MaxTail)}

\* RSI(14) values on both sides of 25 and 75, and the two ends of its range
ReversalRsi == {0, 24, 25, 75, 76, 100}

ReversalDf1m ==
    {MkDf(cs, 50, r14, EmaEqual, up) :
        cs \in ReversalWindows1m, r14 \in ReversalRsi, up \in BOOLEAN}

ReversalDf5m ==
    {EmptyDf} \cup {MkDf(Flat(51, 100, 10), 50, 50, e, FALSE) :
                       e \in {EmaSteadyBull, EmaSteadyBear, EmaEqual}}

ReversalPositions ==
    {[direction |-> d, entry_price |-> 100 * Tick, fibonacci_levels |-> NoLevels] :
        d \in {"LONG", "SHORT", "long", ""}}

InitReversal ==
    /\ pc = "reversal_input"
    /\ position \in ReversalPositions
    /\ df_1m \in ReversalDf1m
    /\ df_5m \in ReversalDf5m
    /\ exit_analysis = DefaultExit
    /\ EntryIdle
    /\ BotIdle
    /\ AuxIdle

\* reversal_signal = self._check_trend_reversal(position_data, df_1m, df_5m)
CheckReversal ==
    /\ pc = "reversal_input"
    /\ reversal_signal' = _check_trend_reversal(position, df_1m, df_5m)
    /\ pc' = "reversal_done"
    /\ UNCHANGED <<position, df_1m, df_5m, exit_analysis, btc_trend, signal,
                   long_conditions, short_conditions, valid, botVars, analysis, spike,
                   fib, active_positions, runVars>>

NextReversal == CheckReversal

SpecReversal == InitReversal /\ [][NextReversal]_vars

ReversalDone == pc = "reversal_done"

Snapshot1m == get_comprehensive_analysis(df_1m)
Snapshot5m == get_comprehensive_analysis(df_5m)

OpposingPatterns ==
    IF PosDirection = "LONG" THEN BearishPatterns
    ELSE IF PosDirection = "SHORT" THEN BullishPatterns
    ELSE <<>>

\* the four signals as the rule names them
ObvOpposes ==
    \/ PosDirection = "LONG" /\ Snapshot1m.obv_trend = "falling"
    \/ PosDirection = "SHORT" /\ Snapshot1m.obv_trend = "rising"

PatternOpposes ==
    \E i \in 1..Len(OpposingPatterns) :
        PatGet(Snapshot1m.candlestick_patterns, OpposingPatterns[i])

RsiOpposes ==
    /\ IsNum(Snapshot1m.rsi_14)
    /\ \/ PosDirection = "LONG" /\ Snapshot1m.rsi_14.v > 75
       \/ PosDirection = "SHORT" /\ Snapshot1m.rsi_14.v < 25

TrendOpposes ==
    \/ PosDirection = "LONG" /\ Snapshot5m.trend = "bearish"
    \/ PosDirection = "SHORT" /\ Snapshot5m.trend = "bullish"

One(b) == IF b THEN 1 ELSE 0

Tally == One(ObvOpposes) + One(PatternOpposes) + One(RsiOpposes) + One(TrendOpposes)

\* the RSI signal as the code tests it: "if rsi_14:" skips a value of 0.0
RsiOpposesUnlessZero == RsiOpposes /\ Snapshot1m.rsi_14.v # 0

TallyAsCoded ==
    One(ObvOpposes) + One(PatternOpposes) + One(RsiOpposesUnlessZero) + One(TrendOpposes)

\* the signals a reason lists: every part after its heading
Listed(reason) == IF reason = <<>> THEN 0 ELSE Len(reason) - 1

\* C20: the reversal check tallies the four signals (opposing OBV trend, one
\* opposing candlestick pattern at most, RSI(14) above 75 for a long or below
\* 25 for a short, opposing long-timeframe trend); it reports exit exactly
\* when the tally is 2 or more, and the reason then lists as many signals as
\* the tally counts.
C20_ReversalTally ==
    ReversalDone =>
        /\ Tally \in 0..4
        /\ reversal_signal.should_exit <=> Tally >= 2
        /\ reversal_signal.should_exit =>
              /\ Listed(reversal_signal.reason) = Tally
              /\ reversal_signal.count = Tally

\* What the reversal check does: the same with the RSI signal skipped at 0.0, and the
\* pattern it lists is the first of the ordered list that holds.
ReversalTallyAsCoded ==
    ReversalDone =>
        /\ TallyAsCoded \in 0..4
        /\ reversal_signal.should_exit <=> TallyAsCoded >= 2
        /\ reversal_signal.should_exit =>
              /\ Listed(reversal_signal.reason) = TallyAsCoded
              /\ reversal_signal.count = TallyAsCoded
              /\ PatternOpposes =>
                    \E i \in 1..Len(OpposingPatterns) :
                        /\ PatGet(Snapshot1m.candlestick_patterns, OpposingPatterns[i])
                        /\ \A j \in 1..(i - 1) :
                              ~PatGet(Snapshot1m.candlestick_patterns, OpposingPatterns[j])
                        /\ \E k \in 2..Len(reversal_signal.reason) :
                              reversal_signal.reason[k] = OpposingPatterns[i]


----------------------------------------------------------------------------
(* The two scorers on drawn snapshots: every dict of pattern flags *)

PatternNames == {"doji", "hammer", "inverted_hammer", "bullish_engulfing",
                 "bearish_engulfing", "bullish_pinbar", "bearish_pinbar"}

PatternDicts == [PatternNames -> BOOLEAN] \cup {NoPatterns}

ScoredSnapshots ==
    {[EmptyAnalysis EXCEPT !.empty = FALSE,
                           !.rsi_7 = Num(r), !.rsi_14 = Num(50),
                           !.obv_trend = IF r < 50 THEN "rising" ELSE "falling",
                           !.trend = "neutral",
                           !.candlestick_patterns = ps,
                           !.current_price = Num(100 * Tick),
                           !.current_volume = Num(10)] :
        r \in {20, 80}, ps \in PatternDicts}

InitScore ==
    /\ pc = "score_input"
    /\ analysis \in ScoredSnapshots
    /\ btc_trend \in {"bullish", "bearish", "neutral"}
    /\ df_1m = EmptyDf
    /\ df_5m \in {MkDf(Flat(50, 100, 10), 50, 50, e, FALSE) : e \in {EmaSteadyBull, EmaEqual}}
    /\ signal = DefaultSignal
    /\ long_conditions = NoConditions
    /\ short_conditions = NoConditions
    /\ valid = FALSE
    /\ spike = FALSE
    /\ fib = NoFib
    /\ active_positions = NoPositions
    /\ reversal_signal = NoReversal
    /\ ExitIdle
    /\ BotIdle

\* long_conditions = self._check_long_conditions(analysis_1m, analysis_5m, btc_trend)
\* short_conditions = self._check_short_conditions(analysis_1m, analysis_5m, btc_trend)
ScoreConditions ==
    /\ pc = "score_input"
    /\ long_conditions' =
           _check_long_conditions(analysis, get_comprehensive_analysis(df_5m), btc_trend)
    /\ short_conditions' =
           _check_short_conditions(analysis, get_comprehensive_analysis(df_5m), btc_trend)
    /\ pc' = "score_done"
    /\ UNCHANGED <<position, df_1m, df_5m, exit_analysis, btc_trend, signal, valid,
                   botVars, auxVars, runVars>>

NextScore == ScoreConditions

SpecScore == InitScore /\ [][NextScore]_vars

ScoreDone == pc = "score_done"

\* the reasons of a scorer that name a pattern
PatternReasons(reasons) == {i \in 1..Len(reasons) : reasons[i] \in PatternNames}

\* the first name of an ordered list whose flag is set, "" when none is
FirstPresent(order) ==
    LET set == {i \in 1..Len(order) : PatGet(analysis.candlestick_patterns, order[i])}
    IN IF set = {} THEN "" ELSE order[CHOOSE i \in set : \A j \in set : i <= j]

WithoutPatterns == [analysis EXCEPT !.candlestick_patterns = NoPatterns]

\* what the pattern rule adds to a score: the score less the score of the
\* same snapshot without any pattern flag
PatternPoints(cond, unflagged) == cond.score - unflagged.score

PatternRuleHolds(cond, unflagged, order) ==
    /\ Cardinality(PatternReasons(cond.reasons)) <= 1
    /\ PatternPoints(cond, unflagged) = IF FirstPresent(order) = "" THEN 0 ELSE 1
    /\ \A i \in PatternReasons(cond.reasons) : cond.reasons[i] = FirstPresent(order)
    /\ FirstPresent(order) # "" => PatternReasons(cond.reasons) # {}

\* C21: whatever pattern flags are set, the pattern rule adds at most one
\* point to the long score and to the short score, and the one pattern a
\* reason names is the first that is set in the list of its direction
\* (long: hammer, bullish_engulfing, bullish_pinbar; short: inverted_hammer,
\* bearish_engulfing, bearish_pinbar).
C21_PatternRule ==
    ScoreDone =>
        /\ PatternRuleHolds(long_conditions,
               _check_long_conditions(WithoutPatterns, get_comprehensive_analysis(df_5m),
                                      btc_trend),
               <<"hammer", "bullish_engulfing", "bullish_pinbar">>)
        /\ PatternRuleHolds(short_conditions,
               _check_short_conditions(WithoutPatterns, get_comprehensive_analysis(df_5m),
                                       btc_trend),
               <<"inverted_hammer", "bearish_engulfing", "bearish_pinbar">>)

\* all seven flags set: one point each way, for hammer and for inverted_hammer
C21_Witness ==
    /\ ScoreDone
    /\ \A n \in PatternNames : PatGet(analysis.candlestick_patterns, n)
    /\ PatternReasons(long_conditions.reasons) # {}
    /\ \A i \in PatternReasons(long_conditions.reasons) : long_conditions.reasons[i] = "hammer"
    /\ \A i \in PatternReasons(short_conditions.reasons) :
          short_conditions.reasons[i] = "inverted_hammer"


----------------------------------------------------------------------------
(* Strength, reasons and the rules that fired (SpecEntry) *)

\* the place of a reason in the order of the rules of its direction
RuleRank(reason) ==
    CASE reason \in {"Tendencia do BTC bullish", "Tendencia do BTC bearish"} -> 1
      [] reason \in {"RSI 7 em sobrevenda", "RSI 7 em sobrecompra"} -> 2
      [] reason \in {"RSI 14 em sobrevenda", "RSI 14 em sobrecompra"} -> 3
      [] reason \in {"Tendencia das EMAs bullish (5m)", "Tendencia das EMAs bearish (5m)"} -> 4
      [] reason \in {"OBV em alta", "OBV em queda"} -> 5
      [] reason = "Spike de volume detectado" -> 6
      [] reason \in PatternNames -> 7
      [] reason \in {"Preco proximo ao suporte", "Preco proximo a resistencia"} -> 8

InRuleOrder(reasons) ==
    \A i, j \in 1..Len(reasons) : i < j => RuleRank(reasons[i]) < RuleRank(reasons[j])

\* the scoring rules of a direction that hold on the inputs of the call
RulesFired(direction) ==
    LET a1 == Snapshot1m
        a5 == Snapshot5m
        long == direction = "LONG"
    IN One(btc_trend = IF long THEN "bullish" ELSE "bearish")
       + One(Truthy(a1.rsi_7) /\ IF long THEN Lt(a1.rsi_7, Num(30)) ELSE Gt(a1.rsi_7, Num(70)))
       + One(Truthy(a1.rsi_14) /\ IF long THEN Lt(a1.rsi_14, Num(30))
                                          ELSE Gt(a1.rsi_14, Num(70)))
       + One(a5.trend = IF long THEN "bullish" ELSE "bearish")
       + One(a1.obv_trend = IF long THEN "rising" ELSE "falling")
       + One(a1.volume_spike)
       + One(\E n \in (IF long THEN {"hammer", "bullish_engulfing", "bullish_pinbar"}
                       ELSE {"inverted_hammer", "bearish_engulfing", "bearish_pinbar"}) :
                PatGet(a1.candlestick_patterns, n))
       + One(IF long THEN NearSupport(a1.current_price, a5.support)
             ELSE NearResistance(a1.current_price, a5.resistance))

----------------------------------------------------------------------------
(* The stop loss of an emitted signal (SpecEntry) *)

\* the true ranges of the bars from..to of the short window, added up
RECURSIVE TrueRangeSum(_, _)
TrueRangeSum(from, to) ==
    IF from > to THEN 0 ELSE true_range(df_1m, from) + TrueRangeSum(from + 1, to)

\* 14 times ATR(14): the true ranges of the last 14 bars
Atr14Times14 == TrueRangeSum(DfLen(df_1m) - 13, DfLen(df_1m))

WellFormedLast14 ==
    \A i \in (DfLen(df_1m) - 13)..DfLen(df_1m) :
        df_1m.candles[i].high >= df_1m.candles[i].low

\* C24: for every emitted signal the stop loss is the latest 1m close minus
\* 2.0 x ATR(14) for a long and plus 2.0 x ATR(14) for a short, ATR(14) being
\* the mean true range of the last 14 bars; with candles whose high >= low a
\* long stop is never above the price and a short stop never below it.
C24_StopLossFromAtr ==
    EntryDone /\ signal.has_signal =>
        LET close == ILoc(df_1m, 1).close
            atr14 == Atr14Times14
        IN /\ IsNum(signal.stop_loss)
           /\ signal.price = Num(close)
           /\ signal.direction = "LONG" =>
                 /\ 14 * (close - signal.stop_loss.v) = 2 * atr14
                 /\ WellFormedLast14 => signal.stop_loss.v <= close
           /\ signal.direction = "SHORT" =>
                 /\ 14 * (signal.stop_loss.v - close) = 2 * atr14
                 /\ WellFormedLast14 => signal.stop_loss.v >= close

\* a short signal on a window whose ATR is not zero: the stop is above the price
C24_Witness ==
    /\ EntryDone
    /\ signal.has_signal
    /\ signal.direction = "SHORT"
    /\ Atr14Times14 > 0
    /\ WellFormedLast14
    /\ signal.stop_loss.v > signal.price.v

----------------------------------------------------------------------------
(* The ATR sub-rule of the stop loss (SpecExit) *)

\* C25: the exit evaluator recomputes the ATR stop from the latest close of
\* the window it is given, so the ATR sub-rule matches only when ATR(14) is 0:
\* on every 1m window with ATR(14) > 0 no position is stopped with the ATR
\* reason.  (An exit carries the ATR reason only when the sub-rule matched, and
\* the sub-rule matches only on 14 bars or more whose true ranges add up to 0.)
C25_AtrStopOnlyAtZero ==
    ExitDone /\ ~DfEmpty(df_1m) =>
        /\ exit_analysis.exit_reason \in AtrReasons => AtrMatches
        /\ AtrMatches => DfLen(df_1m) >= atr_period /\ Atr14Times14 = 0

\* a long position on a window with ATR(14) > 0 whose price fell to the low of
\* the previous bar: stopped, with the reason of the previous bar
C25_Witness ==
    /\ ExitDone
    /\ ExitEvaluated
    /\ DfLen(df_1m) >= atr_period
    /\ Atr14Times14 > 0
    /\ PosDirection = "LONG"
    /\ CurrentPrice < ILoc(df_1m, 2).close
    /\ exit_analysis.exit_type = "stop_loss"
    /\ exit_analysis.exit_reason \in PrevCandleReasons

----------------------------------------------------------------------------
(* The entry check on short windows, and its no-signal results (SpecEntry) *)

TooFewBars == DfLen(df_1m) < 50 \/ DfLen(df_5m) < 50

\* C26: when either window has fewer than 50 bars check_entry_conditions
\* returns the default no-signal record (has_signal false, direction none,
\* strength 0, no reasons, no Fibonacci levels, no stop loss, no price) and
\* computes nothing: no score, and the short window is handed to no
\* calculation that would add its columns.  In every no-signal result the
\* direction is none, the Fibonacci levels are empty and the stop loss unset.
C26_ShortWindowsGiveDefault ==
    EntryDone =>
        /\ TooFewBars =>
              /\ signal = DefaultSignal
              /\ ~signal.has_signal
              /\ signal.direction = NoneStr
              /\ signal.strength = 0
              /\ signal.reasons = <<>>
              /\ signal.fibonacci_levels = NoLevels
              /\ signal.stop_loss = None
              /\ signal.price = None
              /\ long_conditions = NoConditions /\ short_conditions = NoConditions
              /\ df_1m.columns = OhlcvColumns
        /\ ~signal.has_signal =>
              /\ signal.direction = NoneStr
              /\ signal.fibonacci_levels = NoLevels
              /\ signal.stop_loss = None

\* only the long window is short, and the bars at hand would score 3 or more
\* for a long
C26_Witness ==
    /\ EntryDone
    /\ DfLen(df_1m) >= 50
    /\ DfLen(df_5m) = 49
    /\ _check_long_conditions(get_comprehensive_analysis(df_1m),
                              get_comprehensive_analysis(df_5m), btc_trend).score >= 3
    /\ signal = DefaultSignal

----------------------------------------------------------------------------
(* The exit evaluator's default decision and its profit fields (SpecExit) *)

\* the profit in percent as the fraction the evaluator computes
ProfitPct ==
    [num |-> (IF PosDirection = "LONG" THEN CurrentPrice - position.entry_price
                                       ELSE position.entry_price - CurrentPrice) * 100,
     den |-> position.entry_price]

\* C27: analyze_exit_conditions returns the default no-exit decision
\* (should_exit false, no exit type, no reason, profit_loss_pct 0, no
\* suggested price) whenever either window is empty, or the entry price is
\* missing or 0, or the direction is missing or empty; in every other case
\* profit_loss_pct and suggested_exit_price, the latest close of the short
\* window, are set whether or not an exit is reported.
C27_DefaultExitOrProfitSet ==
    ExitDone =>
        /\ ~ExitEvaluated =>
              /\ exit_analysis = DefaultExit
              /\ ~exit_analysis.should_exit
              /\ exit_analysis.exit_type = NoneStr
              /\ exit_analysis.profit_loss_pct.num = 0
              /\ exit_analysis.suggested_exit_price = None
        /\ ExitEvaluated =>
              /\ exit_analysis.suggested_exit_price = Num(CurrentPrice)
              /\ exit_analysis.profit_loss_pct = ProfitPct

\* an evaluated position that is not closed and stands at a loss
C27_Witness ==
    /\ ExitDone
    /\ ExitEvaluated
    /\ ~exit_analysis.should_exit
    /\ exit_analysis.suggested_exit_price = Num(CurrentPrice)
    /\ exit_analysis.profit_loss_pct.num < 0

----------------------------------------------------------------------------
(* The pattern flags of drawn candles (SpecPattern) *)

PatternPrices == 98..102

\* the latest candle: every combination of the four prices, those with
\* high < low or an open or close outside high..low included
PatternCandles ==
    {Candle(o, h, l, c, 10) : o \in PatternPrices, h \in PatternPrices,
                              l \in PatternPrices, c \in PatternPrices}

PatternPrevCandles == {Candle(o, 102, 98, c, 10) : o \in {99, 100, 101}, c \in {99, 100, 101}}

PatternDf ==
    {MkDf(<<BarFlat, prev, cur>>, 50, 50, EmaEqual, FALSE) :
        prev \in PatternPrevCandles, cur \in PatternCandles}

InitPattern ==
    /\ pc = "pattern_input"
    /\ df_1m \in PatternDf
    /\ df_5m = EmptyDf
    /\ AuxIdle
    /\ EntryIdle
    /\ ExitIdle
    /\ BotIdle

\* analysis = ta.get_comprehensive_analysis(df), which asks
\* identify_candlestick_patterns(df) for the flags
IdentifyPatterns ==
    /\ pc = "pattern_input"
    /\ analysis' = get_comprehensive_analysis(df_1m)
    /\ pc' = "pattern_done"
    /\ UNCHANGED <<position, df_1m, df_5m, exit_analysis, btc_trend, signal,
                   long_conditions, short_conditions, valid, botVars, spike, fib,
                   active_positions, reversal_signal, runVars>>

NextPattern == IdentifyPatterns

SpecPattern == InitPattern /\ [][NextPattern]_vars

PatternDone == pc = "pattern_done"

Flag(name) == PatGet(analysis.candlestick_patterns, name)

ZeroRange == ILoc(df_1m, 1).high = ILoc(df_1m, 1).low

----------------------------------------------------------------------------
(* TelegramBot.send_message and clear_message_cache over time (SpecTelegram) *)

MaxSends == 3

Texts == {"parado", "iniciado"}

\* the clock readings at which something is called
ClockTimes == {0, 299, 300, 601}

\* one call of send_message: status 0 when no HTTP request was issued
SendCall(text, time, status, result) ==
    [text |-> text, time |-> time, status |-> status, result |-> result]

InitTelegram ==
    /\ pc = "telegram"
    /\ token \in {"", "token"}
    /\ message_cache = NoMessages
    /\ now = 0
    /\ send_calls = <<>>
    /\ is_running = FALSE
    /\ signals_received = 0
    /\ pair_idx = 1
    /\ signals_found = <<>>
    /\ send_idx = 1
    /\ last_alert = NoAlert
    /\ signals_sent_today = 0
    /\ cycle_count = 0
    /\ cycle_start_time = 0
    /\ df_1m = EmptyDf
    /\ df_5m = EmptyDf
    /\ AuxIdle
    /\ EntryIdle
    /\ ExitIdle

TelegramUnchanged ==
    UNCHANGED <<pc, position, df_1m, df_5m, exit_analysis, btc_trend, signal,
                long_conditions, short_conditions, valid, pair_idx, signals_found,
                send_idx, last_alert, signals_sent_today, cycle_count,
                cycle_start_time, auxVars, is_running, signals_received, token>>

\* await telegram_bot.send_message(text)
SendMessage ==
    /\ pc = "telegram"
    /\ Len(send_calls) < MaxSends
    /\ \E text \in Texts, status \in {200, 500} :
          LET sent == send_message(token, message_cache, text, now, status)
          IN /\ message_cache' = sent.message_cache
             /\ send_calls' = Append(send_calls,
                    SendCall(text, now, IF sent.posted THEN status ELSE 0, sent.result))
    /\ UNCHANGED now
    /\ TelegramUnchanged

\* telegram_bot.clear_message_cache()
ClearMessageCache ==
    /\ pc = "telegram"
    /\ message_cache' = clear_message_cache(message_cache, now)
    /\ UNCHANGED <<now, send_calls>>
    /\ TelegramUnchanged

\* time passes between two calls
ClockAdvances ==
    /\ pc = "telegram"
    /\ \E t \in ClockTimes : t > now /\ now' = t
    /\ UNCHANGED <<message_cache, send_calls>>
    /\ TelegramUnchanged

NextTelegram == SendMessage \/ ClearMessageCache \/ ClockAdvances

SpecTelegram == InitTelegram /\ [][NextTelegram]_vars

Accepted(i) == send_calls[i].status = 200
Posted(i) == send_calls[i].status # 0

\* an earlier call with the same text was accepted less than 300 seconds
\* before call i
AcceptedWithin(i) ==
    \E j \in 1..(i - 1) :
        /\ send_calls[j].text = send_calls[i].text
        /\ Accepted(j)
        /\ send_calls[i].time - send_calls[j].time < cache_duration

\* the times at which the text was accepted
AcceptedTimes(text) ==
    {send_calls[i].time : i \in {j \in 1..Len(send_calls) :
                                    send_calls[j].text = text /\ Accepted(j)}}

\* C29: after send_message(text) was accepted with status 200, every later
\* send_message of the same text within 300 seconds issues no HTTP request
\* and returns true; a send that failed does not record the text, so that a
\* retry is posted again (a configured bot posts every text not accepted
\* within the last 300 seconds); and clear_message_cache removes only entries
\* older than 300 seconds: the cache holds the latest acceptance of every
\* text accepted at most 300 seconds ago, and nothing but acceptances.
C29_TelegramDedup ==
    pc = "telegram" =>
        /\ \A i \in 1..Len(send_calls) :
              /\ AcceptedWithin(i) => ~Posted(i) /\ send_calls[i].result
              /\ token # "" /\ ~AcceptedWithin(i) => Posted(i)
              /\ Posted(i) => (send_calls[i].result <=> Accepted(i))
        /\ \A text \in Texts :
              /\ text \in DOMAIN message_cache =>
                    /\ AcceptedTimes(text) # {}
                    /\ message_cache[text] = SetMax(AcceptedTimes(text))
              /\ AcceptedTimes(text) # {}
                    /\ now - SetMax(AcceptedTimes(text)) <= cache_duration
                    => text \in DOMAIN message_cache

\* a text is refused by the API, posted again and accepted, sent once more
\* 299 seconds later without a request, and the cache was cleared in between
C29_Witness ==
    /\ pc = "telegram"
    /\ Len(send_calls) = 3
    /\ send_calls[1] = SendCall("parado", 0, 500, FALSE)
    /\ send_calls[2] = SendCall("parado", 0, 200, TRUE)
    /\ send_calls[3] = SendCall("parado", 299, 0, TRUE)
    /\ now = 601
    /\ message_cache = NoMessages

----------------------------------------------------------------------------
(* MEXCScalpingBot.run and the signal handler (SpecRun) *)

MaxSignals == 2
MaxErrors == 2

StartedText == "iniciado"
StoppedText == "parado"
LoopErrorText == "erro: Loop principal"
CriticalErrorText == "erro: Erro critico"

InitRun ==
    /\ pc = "run_start"
    /\ token \in {"", "token"}
    /\ message_cache = NoMessages
    /\ now = 0
    /\ send_calls = <<>>
    /\ is_running = FALSE
    /\ signals_received = 0
    /\ pair_idx = 1
    /\ signals_found = <<>>
    /\ send_idx = 1
    /\ last_alert = NoAlert
    /\ signals_sent_today = 0
    /\ cycle_count = 0
    /\ cycle_start_time = 0
    /\ df_1m = EmptyDf
    /\ df_5m = EmptyDf
    /\ AuxIdle
    /\ EntryIdle
    /\ ExitIdle

RunUnchanged ==
    UNCHANGED <<position, df_1m, df_5m, exit_analysis, btc_trend, signal,
                long_conditions, short_conditions, valid, pair_idx, signals_found,
                send_idx, last_alert, signals_sent_today, cycle_start_time, now,
                auxVars, token>>

\* await self.telegram_bot.send_message(text) within run, the API answering
\* status
RunSends(text, status) ==
    LET sent == send_message(token, message_cache, text, now, status)
    IN /\ message_cache' = sent.message_cache
       /\ send_calls' = Append(send_calls,
              SendCall(text, now, IF sent.posted THEN status ELSE 0, sent.result))

ErrorsSoFar ==
    Cardinality({i \in 1..Len(send_calls) : send_calls[i].text = LoopErrorText})

\* _signal_handler: SIGINT or SIGTERM is delivered, at any point of run
SignalHandler ==
    /\ pc # "run_done"
    /\ signals_received < MaxSignals
    /\ is_running' = FALSE
    /\ signals_received' = signals_received + 1
    /\ UNCHANGED <<pc, cycle_count, message_cache, send_calls>>
    /\ RunUnchanged

\* run, line 243: initialize() is awaited
RunBegin ==
    /\ pc = "run_start"
    /\ pc' = "initializing"
    /\ UNCHANGED <<is_running, signals_received, cycle_count, message_cache, send_calls>>
    /\ RunUnchanged

\* run, lines 243-250: initialize() returned; on False run returns through
\* its finally, on True it sets is_running and announces the start
InitializeReturns ==
    /\ pc = "initializing"
    /\ \E ok \in BOOLEAN, status \in {200, 500} :
          /\ token = "" => ~ok
          /\ IF ok
             THEN /\ is_running' = TRUE
                  /\ RunSends(StartedText, status)
                  /\ pc' = "loop_test"
             ELSE /\ pc' = "finally"
                  /\ UNCHANGED <<is_running, message_cache, send_calls>>
    /\ UNCHANGED <<signals_received, cycle_count>>
    /\ RunUnchanged

\* while self.is_running: a new analysis cycle starts, or the loop is left
LoopTest ==
    /\ pc = "loop_test"
    /\ pc' = IF is_running THEN "cycle" ELSE "finally"
    /\ UNCHANGED <<is_running, signals_received, cycle_count, message_cache, send_calls>>
    /\ RunUnchanged

\* lines 260-275: the cycle ran and was counted (the count is kept up to
\* MaxCycles)
CycleDone ==
    /\ pc = "cycle"
    /\ cycle_count' = IF cycle_count < MaxCycles THEN cycle_count + 1 ELSE cycle_count
    /\ pc' = "sleeping"
    /\ UNCHANGED <<is_running, signals_received, message_cache, send_calls>>
    /\ RunUnchanged

\* line 278: asyncio.sleep(wait_time) is over
SleepDone ==
    /\ pc = "sleeping"
    /\ pc' = "loop_test"
    /\ UNCHANGED <<is_running, signals_received, cycle_count, message_cache, send_calls>>
    /\ RunUnchanged

\* lines 282-284: an exception in the body of the loop; the alert is sent
LoopRaises ==
    /\ pc \in {"cycle", "sleeping"}
    /\ ErrorsSoFar < MaxErrors
    /\ \E status \in {200, 500} : RunSends(LoopErrorText, status)
    /\ pc' = "loop_error"
    /\ UNCHANGED <<is_running, signals_received, cycle_count>>
    /\ RunUnchanged

\* line 285: the minute after the alert is over, or it ended with an error
\* that leaves the loop
LoopErrorDone ==
    /\ pc = "loop_error"
    /\ pc' \in {"loop_test", "critical"}
    /\ UNCHANGED <<is_running, signals_received, cycle_count, message_cache, send_calls>>
    /\ RunUnchanged

\* lines 287-289: the outer handler sends its alert
CriticalHandled ==
    /\ pc = "critical"
    /\ \E status \in {200, 500} : RunSends(CriticalErrorText, status)
    /\ pc' = "finally"
    /\ UNCHANGED <<is_running, signals_received, cycle_count>>
    /\ RunUnchanged

\* lines 291-294: finally
RunFinally ==
    /\ pc = "finally"
    /\ is_running' = FALSE
    /\ \E status \in {200, 500} : RunSends(StoppedText, status)
    /\ pc' = "run_done"
    /\ UNCHANGED <<signals_received, cycle_count>>
    /\ RunUnchanged

RunStep ==
    \/ RunBegin
    \/ InitializeReturns
    \/ LoopTest
    \/ CycleDone
    \/ SleepDone
    \/ LoopRaises
    \/ LoopErrorDone
    \/ CriticalHandled
    \/ RunFinally

NextRun == RunStep \/ SignalHandler

\* the event loop keeps running the coroutine: every await of run comes
\* back; nothing obliges a signal to arrive
Progress ==
    /\ WF_vars(RunBegin) /\ WF_vars(InitializeReturns) /\ WF_vars(LoopTest)
    /\ WF_vars(CycleDone) /\ WF_vars(SleepDone) /\ WF_vars(LoopErrorDone)
    /\ WF_vars(CriticalHandled) /\ WF_vars(RunFinally)

SpecRun == InitRun /\ [][NextRun]_vars /\ Progress

RunDone == pc = "run_done"

StopAttempts ==
    Cardinality({i \in 1..Len(send_calls) : send_calls[i].text = StoppedText})

CycleStarts == pc = "loop_test" /\ pc' = "cycle"

\* C30: once the handler has set is_running to false no new analysis cycle
\* is started, and run then terminates; whenever run has terminated (after a
\* failed initialization and after a critical error too) is_running is false
\* and the 'bot stopped' message was attempted once.
C30_Shutdown ==
    /\ [][signals_received > 0 => ~CycleStarts]_vars
    /\ (signals_received > 0 ~> RunDone)
    /\ [](RunDone => ~is_running /\ StopAttempts = 1)

\* What run does: a request that arrives once the loop is entered stops it ...
InLoop == pc \in {"loop_test", "cycle", "sleeping", "loop_error"}

StopsOnceLooping ==
    /\ [][InLoop /\ ~is_running => ~CycleStarts]_vars
    /\ (InLoop /\ ~is_running ~> RunDone)

\* ... every end of run leaves is_running false and one attempt of the
\* message ...
EndsStopped == RunDone => ~is_running /\ StopAttempts = 1

\* ... and, left alone after a failed initialization, run ends
FailedInitEnds == (pc = "finally") ~> RunDone

=============================================================================
